---- MODULE Spec2Model ----
(***************************************************************************)
(* A model of the VectorDBRAG agent platform: keyword triage, the agent    *)
(* wrappers around the chat-completion API, the UnifiedAgentManager, the   *)
(* Flask route /api/agents/query, the pickle/JSON backed text memory and   *)
(* the ChromaDB backed RAGSystem.                                          *)
(***************************************************************************)
EXTENDS Integers, Sequences, FiniteSets, TLC

VARIABLES
    query,            \* SpecTriage: the query handed to analyze_request
    triage_result,    \* SpecTriage: the dict analyze_request returned
    client,           \* agents.py module global `client`: "present" / "missing"
    agents,           \* UnifiedAgentManager.agents: AgentType value -> class held
    task_queue,       \* UnifiedAgentManager.task_queue
    active_tasks,     \* UnifiedAgentManager.active_tasks  (task id -> task)
    completed_tasks,  \* UnifiedAgentManager.completed_tasks (task id -> response)
    call,             \* the last call made on the agent system and what it returned
    file,             \* text_memory.pkl on disk: "absent", "truncated" or a list
    conv_file,        \* conversations.json on disk: "absent" or a session map
    mem,              \* the TextSimilarityMemory instances (one per process)
    returned_ids,     \* ids add_memory has returned to its callers
    next_id,          \* source of fresh entry ids (time.time() in _generate_id)
    turns_added,      \* the turns add_conversation_turn has recorded, by session
    history,          \* what get_conversation_history last returned
    rag,              \* the RAGSystem object of the running process
    store,            \* the ChromaDB collection persisted under ./chroma_db
    hash_seed,        \* the running process's string-hash randomisation seed
    presented,        \* the (source, content, id) triples handed to collection.add
    rag_call,         \* the last RAGSystem call and what it did
    kb,               \* SearchSystem / FileUploader / VectorStoreManager call in progress
    enhanced,         \* the last RAGEnhancedAgent.run call and how it ended
    ingestion,        \* ReportIngestion: the reports directory and what was ingested
    ollama,           \* agents_ollama.py: OLLAMA_AVAILABLE and one ExecutorWithFallback
    recall,           \* a TextSimilarityMemory's entries and its last search_memory call
    cleanup           \* a TextSimilarityMemory, its two files and the clock

vars == <<query, triage_result, client, agents, task_queue, active_tasks,
          completed_tasks, call, file, conv_file, mem, returned_ids, turns_added,
          next_id, history, rag, store, hash_seed, presented, rag_call,
          kb, enhanced, ingestion, ollama, recall, cleanup>>

triage_vars == <<query, triage_result>>
agent_vars  == <<client, agents, task_queue, active_tasks, completed_tasks, call>>
memory_vars == <<file, conv_file, mem, returned_ids, turns_added, next_id, history>>
rag_vars    == <<rag, store, hash_seed, presented, rag_call>>
component_vars == <<ollama, recall, cleanup>>
service_vars == <<kb, enhanced, ingestion, component_vars>>

(***************************************************************************)
(* Strings are sequences of one-character strings.                         *)
(***************************************************************************)
UpperChars == <<"A","B","C","D","E","F","G","H","I","J","K","L","M",
                "N","O","P","Q","R","S","T","U","V","W","X","Y","Z">>
LowerChars == <<"a","b","c","d","e","f","g","h","i","j","k","l","m",
                "n","o","p","q","r","s","t","u","v","w","x","y","z">>

LowerChar(c) ==
    IF \E i \in 1..Len(UpperChars) : UpperChars[i] = c
    THEN LowerChars[CHOOSE i \in 1..Len(UpperChars) : UpperChars[i] = c]
    ELSE c

\* str.lower()
Lower(s) == [i \in 1..Len(s) |-> LowerChar(s[i])]

\* `k in s` on strings
IsSubstring(k, s) ==
    \E i \in 0..(Len(s) - Len(k)) : SubSeq(s, i + 1, i + Len(k)) = k

\* len(s.split()): the number of maximal runs of non-blank characters
WordCount(s) ==
    Cardinality({i \in 1..Len(s) : s[i] # " " /\ (i = 1 \/ s[i-1] = " ")})

(***************************************************************************)
(* TriageAgent                                                             *)
(***************************************************************************)
\* Faulty variant of routing_rules: the coach rule names an agent that is no
\* AgentType value.
routing_rules_typo == <<
    [keyword |-> <<"c","o","d","e">>,
     agents  |-> <<"code_analyzer", "code_debugger", "code_repair">>],
    [keyword |-> <<"d","e","b","u","g">>,
     agents  |-> <<"code_debugger", "test_generator">>],
    [keyword |-> <<"p","e","r","f","o","r","m","a","n","c","e">>,
     agents  |-> <<"performance", "code_analyzer">>],
    [keyword |-> <<"r","e","s","e","a","r","c","h">>,
     agents  |-> <<"research", "ceo">>],
    [keyword |-> <<"i","m","a","g","e">>,
     agents  |-> <<"image">>],
    [keyword |-> <<"a","u","d","i","o">>,
     agents  |-> <<"audio">>],
    [keyword |-> <<"t","e","s","t">>,
     agents  |-> <<"test_generator">>],
    [keyword |-> <<"c","o","a","c","h">>,
     agents  |-> <<"coach">>],
    [keyword |-> <<"c","o","m","p","l","e","x">>,
     agents  |-> <<"ceo", "executor">>] >>

\* self.routing_rules, in the dict's declared (insertion) order
routing_rules == <<
    [keyword |-> <<"c","o","d","e">>,
     agents  |-> <<"code_analyzer", "code_debugger", "code_repair">>],
    [keyword |-> <<"d","e","b","u","g">>,
     agents  |-> <<"code_debugger", "test_generator">>],
    [keyword |-> <<"p","e","r","f","o","r","m","a","n","c","e">>,
     agents  |-> <<"performance", "code_analyzer">>],
    [keyword |-> <<"r","e","s","e","a","r","c","h">>,
     agents  |-> <<"research", "ceo">>],
    [keyword |-> <<"i","m","a","g","e">>,
     agents  |-> <<"image">>],
    [keyword |-> <<"a","u","d","i","o">>,
     agents  |-> <<"audio">>],
    [keyword |-> <<"t","e","s","t">>,
     agents  |-> <<"test_generator">>],
    [keyword |-> <<"c","o","a","c","h">>,
     agents  |-> <<"coaching">>],
    [keyword |-> <<"c","o","m","p","l","e","x">>,
     agents  |-> <<"ceo", "executor">>] >>

\* Faulty variant of the routing loop: no break after the first hit.
RECURSIVE RouteLast(_, _, _)
RouteLast(i, query_lower, found) ==
    IF i > Len(routing_rules) THEN found
    ELSE IF IsSubstring(routing_rules[i].keyword, query_lower)
         THEN RouteLast(i + 1, query_lower, routing_rules[i].agents[1])
         ELSE RouteLast(i + 1, query_lower, found)

RouteNoBreak(i, query_lower) == RouteLast(i, query_lower, "executor")

\* the for-loop of analyze_request from rule i on: first hit wins, then break
RECURSIVE Route(_, _)
Route(i, query_lower) ==
    IF i > Len(routing_rules) THEN "executor"
    ELSE IF IsSubstring(routing_rules[i].keyword, query_lower)
         THEN routing_rules[i].agents[1]
         ELSE Route(i + 1, query_lower)

Complexity(q) ==
    IF WordCount(q) > 50 \/ IsSubstring(<<"c","o","m","p","l","e","x">>, Lower(q))
    THEN "high"
    ELSE IF WordCount(q) < 10 THEN "low" ELSE "medium"

\* TriageAgent.analyze_request(query, context) on a string query
analyze_request(q) ==
    [agent_type |-> Route(1, Lower(q)),
     complexity |-> Complexity(q),
     query      |-> q]

(***************************************************************************)
(* SpecTriage: analyze_request on bounded query strings                    *)
(***************************************************************************)
MaxFragments == 3

\* the pieces bounded queries are assembled from (mixed case, keywords split
\* over two pieces, keywords that contain or follow other keywords)
Fragments == {
    <<"C","o","d","e">>, <<"c","o">>, <<"d","e">>, <<"D","E","B","U","G">>,
    <<"t","e","s","t">>, <<"C","o","a","c","h">>, <<"c","o","m","p","l","e","x">>,
    <<"a","u","d","i","o">>, <<" ">>, <<"x">> }

RECURSIVE Concat(_)
Concat(ss) == IF ss = <<>> THEN <<>> ELSE Head(ss) \o Concat(Tail(ss))

Queries ==
    {Concat(fs) : fs \in UNION {[1..n -> Fragments] : n \in 0..MaxFragments}}

NoTriage == [agent_type |-> "", complexity |-> "", query |-> <<>>]

\* a process in which analyze_request is not exercised holds the empty query
NoQueries == {<<>>}

\* triage_agent.analyze_request(query, context)
AnalyzeRequest ==
    /\ triage_result = NoTriage
    /\ triage_result' = analyze_request(query)
    /\ UNCHANGED <<query, agent_vars, memory_vars, rag_vars, service_vars>>

(***************************************************************************)
(* The agent wrappers (agents.py) and the UnifiedAgentManager              *)
(***************************************************************************)
AgentTypes == {"ceo", "executor", "triage", "research", "performance", "coaching",
               "test_generator", "code_analyzer", "code_debugger", "code_repair",
               "image", "audio"}

\* _init_agents.agent_configs: the class each creator builds and the name the
\* built object carries (its constructor argument or its constructor default)
agent_configs == [t \in AgentTypes |->
    CASE t = "ceo"            -> [class |-> "CEOAgent", name |-> "Chief Executive Officer", config_name |-> "Chief Executive Officer"]
      [] t = "executor"       -> [class |-> "ExecutorWithFallback", name |-> "Executor", config_name |-> "Executor"]
      [] t = "triage"         -> [class |-> "TriageAgent", name |-> "Triage Specialist", config_name |-> "Triage Specialist"]
      [] t = "research"       -> [class |-> "ResearchAgent", name |-> "Research Analyst", config_name |-> "Research Analyst"]
      [] t = "performance"    -> [class |-> "PerformanceAgent", name |-> "Performance Analyst", config_name |-> "Performance Analyst"]
      [] t = "coaching"       -> [class |-> "CoachingAgent", name |-> "AI Coach", config_name |-> "AI Coach"]
      [] t = "test_generator" -> [class |-> "TestGeneratorAgent", name |-> "Test Generator", config_name |-> "Test Generator"]
      [] t = "code_analyzer"  -> [class |-> "CodeAnalyzerAgent", name |-> "CodeAnalyzer", config_name |-> "Code Analyzer"]
      [] t = "code_debugger"  -> [class |-> "CodeDebuggerAgent", name |-> "CodeDebugger", config_name |-> "Code Debugger"]
      [] t = "code_repair"    -> [class |-> "CodeRepairAgent", name |-> "CodeRepairer", config_name |-> "Code Repair"]
      [] t = "image"          -> [class |-> "ImageAgent", name |-> "ImageProcessor", config_name |-> "Image Agent"]
      [] t = "audio"          -> [class |-> "AudioAgent", name |-> "Audio Agent", config_name |-> "Audio Agent"]]

\* _init_agents: each creator either succeeds or raises; a failed one is
\* replaced by ExecutorWithFallback(name, FAST_MODEL)
init_agents(failed) == [t \in AgentTypes |->
    IF t \in failed
    THEN [class |-> "ExecutorWithFallback", name |-> agent_configs[t].config_name]
    ELSE [class |-> agent_configs[t].class, name |-> agent_configs[t].name]]

\* what one chat.completions.create call can do
ApiOutcomes == {"ok", "no_content", "raise"}

\* the values run() hands back
Content(by)         == [kind |-> "content", by |-> by]
ContentFallback(by) == [kind |-> "content_fallback", by |-> by]
ErrorString(by)     == [kind |-> "error_string", by |-> by]
NoneValue(by)       == [kind |-> "None", by |-> by]
EmptyString         == [kind |-> "empty_string", by |-> "System"]

IsString(v) == v.kind \in {"content", "content_fallback", "error_string", "empty_string"}

\* the run() every wrapper other than ExecutorWithFallback has: client guard,
\* one create call inside try/except
run_single(cl, ag, outs) ==
    IF cl = "missing" THEN [value |-> ErrorString(ag.name), attempts |-> 0]
    ELSE CASE outs[1] = "ok"         -> [value |-> Content(ag.name), attempts |-> 1]
           [] outs[1] = "no_content" -> [value |-> NoneValue(ag.name), attempts |-> 1]
           [] outs[1] = "raise"      -> [value |-> ErrorString(ag.name), attempts |-> 1]

\* Faulty variant: the fallback attempt's except clause is missing
run_executor_unguarded(cl, ag, outs) ==
    IF cl = "missing" THEN [value |-> ErrorString(ag.name), attempts |-> 0]
    ELSE CASE outs[1] = "ok"         -> [value |-> Content(ag.name), attempts |-> 1]
           [] outs[1] = "no_content" -> [value |-> NoneValue(ag.name), attempts |-> 1]
           [] outs[1] = "raise" ->
                IF outs[2] = "ok"
                THEN [value |-> ContentFallback(ag.name), attempts |-> 2]
                ELSE [value |-> [kind |-> "raised", by |-> ag.name], attempts |-> 2]

\* Faulty variant: a failed fallback attempt counts a further retry
run_executor_retry(cl, ag, outs) ==
    IF cl = "missing" THEN [value |-> ErrorString(ag.name), attempts |-> 0]
    ELSE CASE outs[1] = "ok"         -> [value |-> Content(ag.name), attempts |-> 1]
           [] outs[1] = "no_content" -> [value |-> NoneValue(ag.name), attempts |-> 1]
           [] outs[1] = "raise" ->
                IF outs[2] = "ok"
                THEN [value |-> ContentFallback(ag.name), attempts |-> 2]
                ELSE [value |-> ErrorString(ag.name), attempts |-> 3]

\* ExecutorWithFallback.run: client guard, a create call on self.model and, when
\* that raises, a second create call on self.fallback_model; content + suffix
\* raises TypeError inside the inner try when the content is None
run_executor(cl, ag, outs) ==
    IF cl = "missing" THEN [value |-> ErrorString(ag.name), attempts |-> 0]
    ELSE CASE outs[1] = "ok"         -> [value |-> Content(ag.name), attempts |-> 1]
           [] outs[1] = "no_content" -> [value |-> NoneValue(ag.name), attempts |-> 1]
           [] outs[1] = "raise" ->
                IF outs[2] = "ok"
                THEN [value |-> ContentFallback(ag.name), attempts |-> 2]
                ELSE [value |-> ErrorString(ag.name), attempts |-> 2]

\* agent.run(query) by the class of the object
run(cl, ag, outs) ==
    IF ag.class = "ExecutorWithFallback"
    THEN run_executor(cl, ag, outs)
    ELSE run_single(cl, ag, outs)

(***************************************************************************)
(* UnifiedAgentManager.process_request / process_task, quick_agent_query   *)
(***************************************************************************)
\* query values: a JSON string, or a JSON value that is no string
StrQuery(chars) == [type |-> "str", chars |-> chars]
NonStrQuery     == [type |-> "int", chars |-> <<>>]

NoMetadata == [none |-> TRUE]

\* f"{prefix}_{int(time.time() * 1000)}": an id made from the clock reading
TimeId(prefix) == [prefix |-> prefix, ms |-> "now"]

\* the AgentResponse built in the except branch of process_request/process_task
ErrorResponse(task_id, msg) ==
    [task_id |-> task_id, agent_name |-> "System", result |-> EmptyString,
     success |-> FALSE, execution_time |-> "elapsed", metadata |-> NoMetadata,
     error |-> msg]

\* the query strings sent to the running system
SampleQueries == { <<"d","e","b","u","g"," ","C","o","d","e">>,
                   <<"C","o","a","c","h">>,
                   <<"x">> }

\* analyze_request on the sample queries, evaluated once
triage_table == [c \in SampleQueries |-> analyze_request(c)]

\* triage_agent.analyze_request(query, context)
triage(chars) ==
    IF chars \in SampleQueries THEN triage_table[chars] ELSE analyze_request(chars)

\* AgentType(agent_type_str.lower()) with the ValueError fallback to EXECUTOR
primary_agent_type(agent_type_str) ==
    IF agent_type_str \in AgentTypes THEN agent_type_str ELSE "executor"

\* Faulty variant: the except branch reports the failure as a success
process_request_swallow(cl, ags, q, outs) ==
    IF ags["triage"].class # "TriageAgent" \/ q.type # "str"
    THEN [ret |-> [ErrorResponse(TimeId("error"), "None")
                      EXCEPT !.success = TRUE],
          runs |-> <<>>, raised |-> "AttributeError"]
    ELSE LET tr  == triage(q.chars)
             pt  == primary_agent_type(tr.agent_type)
             r   == run(cl, ags[pt], outs)
         IN [ret |-> [task_id |-> TimeId("task"),
                      agent_name |-> ags[pt].name, result |-> r.value,
                      success |-> TRUE, execution_time |-> "elapsed",
                      metadata |-> [agent_type |-> pt, complexity |-> tr.complexity,
                                    triage_routing |-> tr.agent_type],
                      error |-> "None"],
             runs |-> <<[class |-> ags[pt].class, calls |-> r.attempts]>>,
             raised |-> "None"]

\* process_request(query, context): triage, one run() of the
\* agent triage chose, the AgentResponse; any exception ends in the except branch.
\* runs lists, per run() made, the class that ran and the chat-completion calls
\* it made.
process_request(cl, ags, q, outs) ==
    IF ags["triage"].class # "TriageAgent"
    THEN \* the fallback object has no analyze_request
         [ret |-> ErrorResponse(TimeId("error"), "AttributeError"),
          runs |-> <<>>, raised |-> "AttributeError"]
    ELSE IF q.type # "str"
    THEN \* query.lower() on a value that is no string
         [ret |-> ErrorResponse(TimeId("error"), "AttributeError"),
          runs |-> <<>>, raised |-> "AttributeError"]
    ELSE LET tr  == triage(q.chars)
             pt  == primary_agent_type(tr.agent_type)
             r   == run(cl, ags[pt], outs)
         IN [ret |-> [task_id |-> TimeId("task"),
                      agent_name |-> ags[pt].name, result |-> r.value,
                      success |-> TRUE, execution_time |-> "elapsed",
                      metadata |-> [agent_type |-> pt, complexity |-> tr.complexity,
                                    triage_routing |-> tr.agent_type],
                      error |-> "None"],
             runs |-> <<[class |-> ags[pt].class, calls |-> r.attempts]>>,
             raised |-> "None"]

\* quick_agent_query(query, agent_type, context): the named agent's run() when
\* agent_type names an AgentType, else (bare except: pass) process_request on a
\* manager built for this call
quick_agent_query(cl, ags, q, agent_type, outs) ==
    IF agent_type # "auto" /\ agent_type \in AgentTypes
    THEN LET r == run(cl, ags[agent_type], outs)
         IN [ret |-> r.value,
             runs |-> <<[class |-> ags[agent_type].class, calls |-> r.attempts]>>,
             raised |-> "None", by |-> ags[agent_type].name]
    ELSE LET p == process_request(cl, ags, q, outs)
         IN [ret |-> p.ret.result, runs |-> p.runs, raised |-> p.raised,
             by |-> p.ret.agent_name]

\* an AgentTask as process_task receives it; agent_type is an AgentType value,
\* or "None" for a task built without one
AgentTask(id, content, agent_type) ==
    [id |-> id, content |-> content, agent_type |-> agent_type,
     complexity |-> "medium", context |-> "map"]

\* self.agents.get(task.agent_type), else self.agents.get(AgentType.EXECUTOR),
\* else none
task_agent(ags, task) ==
    IF task.agent_type \in DOMAIN ags THEN task.agent_type
    ELSE IF "executor" \in DOMAIN ags THEN "executor"
    ELSE "none"

\* the AgentResponse of a task that ran: the success path, or the except branch
\* when task.agent_type.value fails on a value that is no AgentType
task_response(cl, ags, task, outs) ==
    LET primary == ags[task_agent(ags, task)]
        r == run(cl, primary, outs)
    IN IF task.agent_type \in AgentTypes
       THEN [task_id |-> task.id, agent_name |-> primary.name,
             result |-> r.value, success |-> TRUE, execution_time |-> "elapsed",
             metadata |-> [agent_type |-> task.agent_type,
                           complexity |-> task.complexity,
                           context |-> task.context],
             error |-> "None"]
       ELSE ErrorResponse(task.id, "AttributeError")

\* a dict with key k set to v, and with key k deleted
dict_set(d, k, v) == [i \in DOMAIN d \cup {k} |-> IF i = k THEN v ELSE d[i]]
dict_del(d, k)    == [i \in DOMAIN d \ {k} |-> d[i]]

\* Faulty variant: the finished task is dropped instead of being kept
process_task_forget(cl, ags, task, outs, completed, active) ==
    LET primary == ags[task_agent(ags, task)]
        r == run(cl, primary, outs)
    IN [ret |-> [task_id |-> task.id, agent_name |-> primary.name,
                 result |-> r.value, success |-> TRUE, execution_time |-> "elapsed",
                 metadata |-> [agent_type |-> task.agent_type,
                               complexity |-> task.complexity,
                               context |-> task.context],
                 error |-> "None"],
        runs |-> <<[class |-> primary.class, calls |-> r.attempts]>>,
        raised |-> "None",
        completed |-> completed,
        active |-> dict_del(active, task.id)]

\* Faulty variant: the except branch returns the error response without
\* recording it and without removing the task from active_tasks
process_task_leak(cl, ags, task, outs, completed, active) ==
    LET primary  == ags[task_agent(ags, task)]
        r        == run(cl, primary, outs)
        response == task_response(cl, ags, task, outs)
    IN [ret |-> response,
        runs |-> <<[class |-> primary.class, calls |-> r.attempts]>>,
        raised |-> IF response.success THEN "None" ELSE "AttributeError",
        completed |-> IF response.success
                      THEN dict_set(completed, task.id, response) ELSE completed,
        active |-> IF response.success THEN dict_del(active, task.id)
                   ELSE dict_set(active, task.id, task)]

\* process_task(task): the agent of task.agent_type (EXECUTOR when the manager
\* holds none, an exception when it holds no EXECUTOR either), the task entered
\* in active_tasks, one run(), the response stored in completed_tasks and the
\* task removed from active_tasks, on the success path and in the except branch
\* alike.  `completed` and `active` are completed_tasks and active_tasks before
\* the call; the result carries both after it.
process_task(cl, ags, task, outs, completed, active) ==
    IF task_agent(ags, task) = "none"
    THEN LET response == ErrorResponse(task.id, "No agent available")
         IN [ret |-> response, runs |-> <<>>, raised |-> "Exception",
             completed |-> dict_set(completed, task.id, response),
             active |-> dict_del(active, task.id)]
    ELSE LET primary  == ags[task_agent(ags, task)]
             r        == run(cl, primary, outs)
             response == task_response(cl, ags, task, outs)
         IN [ret |-> response,
             runs |-> <<[class |-> primary.class, calls |-> r.attempts]>>,
             raised |-> IF response.success THEN "None" ELSE "AttributeError",
             completed |-> dict_set(completed, task.id, response),
             active |-> dict_del(dict_set(active, task.id, task), task.id)]

(***************************************************************************)
(* agent_flask_integration.py: POST /api/agents/query                      *)
(***************************************************************************)
\* the JSON body of the request: data is falsy (absent or {}), or a dict with or
\* without the keys query, context and agent_type
RequestData(truthy, has_query, q, context, agent_type) ==
    [truthy |-> truthy, has_query |-> has_query, query |-> q,
     context |-> context, agent_type |-> agent_type]

\* the body built from response: the six fields read off an AgentResponse or a dict
response_data(r) ==
    [task_id |-> r.task_id, agent_name |-> r.agent_name, result |-> r.result,
     success |-> r.success, execution_time |-> r.execution_time,
     metadata |-> r.metadata]

\* agent_error_handler: what the decorator answers when the route raises msg
agent_error_handler(msg) ==
    [status |-> 500,
     body |-> [error |-> "Agent processing failed", message |-> msg,
               agent_system |-> "unified_multi_agent"]]

\* agent_query under @agent_error_handler
agent_query(cl, ags, data, outs) ==
    IF ~data.truthy \/ ~data.has_query
    THEN [status |-> 400, body |-> [error |-> "Query is required"],
          runs |-> <<>>, raised |-> "None", by |-> "none"]
    ELSE IF data.context = "null"
    THEN \* context.update(...) on None: the route raises, the decorator answers
         agent_error_handler("AttributeError") @@
         [runs |-> <<>>, raised |-> "AttributeError", by |-> "none"]
    ELSE IF data.agent_type \in {"absent", "auto"}
    THEN LET p == process_request(cl, ags, data.query, outs)
         IN [status |-> 200,
             body |-> [status |-> "success", response |-> response_data(p.ret)],
             runs |-> p.runs, raised |-> p.raised, by |-> p.ret.agent_name]
    ELSE LET k == quick_agent_query(cl, ags, data.query, data.agent_type, outs)
             response == [task_id |-> TimeId("direct"),
                          agent_name |-> data.agent_type, result |-> k.ret,
                          success |-> TRUE, execution_time |-> "0",
                          metadata |-> [routing |-> "direct"]]
         IN [status |-> 200,
             body |-> [status |-> "success", response |-> response_data(response)],
             runs |-> k.runs, raised |-> k.raised, by |-> k.by]

(***************************************************************************)
(* SpecAgents and SpecManager: calls on one running agent system           *)
(***************************************************************************)
MaxTasks == 2

\* the ids of the tasks callers hand to process_task
Stamps  == <<"1", "2", "3", "4">>
TaskIds == {[prefix |-> "job", ms |-> Stamps[n]] : n \in 1..MaxTasks}

\* start-ups considered: every creator succeeds, or one of these raises
FailableTypes == {"triage", "executor", "code_analyzer", "coaching"}
InitFailures  == {{}} \cup {{t} : t \in FailableTypes}

QueryValues == {StrQuery(c) : c \in SampleQueries} \cup {NonStrQuery}

Outcomes == [1..2 -> ApiOutcomes]

\* agent_type values a request body may carry
RequestedTypes == {"absent", "auto", "bogus", "executor", "code_analyzer"}

\* agent_type values of the tasks handed to process_task
TaskTypes == {"code_analyzer", "None"}

\* request bodies: no JSON / {}, a dict without query, dicts with a query
RequestBodies ==
    {RequestData(FALSE, FALSE, NonStrQuery, "absent", "absent"),
     RequestData(TRUE, FALSE, NonStrQuery, "map", "auto")}
    \cup {RequestData(TRUE, TRUE, q, c, at) :
             q \in QueryValues, c \in {"absent", "map", "null"}, at \in RequestedTypes}

NoRet  == [none |-> TRUE]
NoCall == [op |-> "none", arg |-> NoRet, outs |-> <<>>, ret |-> NoRet, runs |-> <<>>,
           raised |-> "None", status |-> 0, body |-> NoRet, by |-> "none"]

\* get_agent_status(): the keys of the status dict
get_agent_status(ags) ==
    [system_status |-> "operational",
     total_agents |-> Cardinality(DOMAIN ags),
     agent_details |-> [t \in DOMAIN ags |->
                          [name |-> ags[t].name, status |-> "ready",
                           type |-> ags[t].class]],
     integrations |-> [rag_system |-> FALSE, analytics_integration |-> FALSE],
     memory_usage |-> "len(vector_memory.entries)"]

\* optimize_agent_system under @agent_error_handler: the report is built from
\* status["agents_available"]; a missing key is a KeyError the decorator answers
optimize_agent_system(ags) ==
    LET status == get_agent_status(ags)
    IN IF "agents_available" \in DOMAIN status
       THEN [status |-> 200,
             body |-> [status |-> "success",
                       optimization |->
                          [performance_metrics |->
                              [total_agents |-> status["agents_available"],
                               system_health |-> "good",
                               optimization_status |-> "no action required"]]],
             raised |-> "None"]
       ELSE [status |-> agent_error_handler("'agents_available'").status,
             body |-> agent_error_handler("'agents_available'").body,
             raised |-> "'agents_available'"]

\* the client global is set or not when the module is imported
Clients == {"present", "missing"}

\* agents[t].run(query), called directly
AgentRun ==
    /\ \E t \in AgentTypes, outs \in Outcomes :
          LET r == run(client, agents[t], outs)
          IN call' = [op |-> "run", arg |-> [agent_type |-> t], outs |-> outs,
                      ret |-> r.value,
                      runs |-> <<[class |-> agents[t].class, calls |-> r.attempts]>>,
                      raised |-> "None", status |-> 0, body |-> NoRet,
                      by |-> agents[t].name]
    /\ UNCHANGED <<client, agents, task_queue, active_tasks, completed_tasks>>
    /\ UNCHANGED <<triage_vars, memory_vars, rag_vars, service_vars>>

ProcessRequest ==
    /\ \E q \in QueryValues, outs \in Outcomes :
          LET p == process_request(client, agents, q, outs)
          IN call' = [op |-> "process_request", arg |-> [query |-> q], outs |-> outs,
                      ret |-> p.ret, runs |-> p.runs,
                      raised |-> p.raised, status |-> 0, body |-> NoRet,
                      by |-> p.ret.agent_name]
    /\ UNCHANGED <<client, agents, task_queue, active_tasks, completed_tasks>>
    /\ UNCHANGED <<triage_vars, memory_vars, rag_vars, service_vars>>

ProcessTask ==
    /\ \E id \in TaskIds, t \in TaskTypes, outs \in Outcomes :
          LET task == AgentTask(id, StrQuery(<<"x">>), t)
              p == process_task(client, agents, task, outs, completed_tasks,
                                active_tasks)
          IN /\ completed_tasks' = p.completed
             /\ active_tasks' = p.active
             /\ call' = [op |-> "process_task", arg |-> task, outs |-> outs,
                         ret |-> p.ret, runs |-> p.runs,
                         raised |-> p.raised, status |-> 0, body |-> NoRet,
                         by |-> p.ret.agent_name]
    /\ UNCHANGED <<client, agents, task_queue>>
    /\ UNCHANGED <<triage_vars, memory_vars, rag_vars, service_vars>>

\* POST /api/agents/query
AgentQuery ==
    /\ \E data \in RequestBodies, outs \in Outcomes :
          LET h == agent_query(client, agents, data, outs)
          IN call' = [op |-> "agent_query", arg |-> data, outs |-> outs,
                      ret |-> NoRet, runs |-> h.runs,
                      raised |-> h.raised, status |-> h.status, body |-> h.body,
                      by |-> h.by]
    /\ UNCHANGED <<client, agents, task_queue, active_tasks, completed_tasks>>
    /\ UNCHANGED <<triage_vars, memory_vars, rag_vars, service_vars>>

\* POST /api/agents/optimize
OptimizeAgentSystem ==
    /\ call' = [NoCall EXCEPT !.op = "optimize",
                    !.raised = optimize_agent_system(agents).raised,
                    !.status = optimize_agent_system(agents).status,
                    !.body = optimize_agent_system(agents).body]
    /\ UNCHANGED <<client, agents, task_queue, active_tasks, completed_tasks>>
    /\ UNCHANGED <<triage_vars, memory_vars, rag_vars, service_vars>>

(***************************************************************************)
(* vector_memory_text.py: TextSimilarityMemory on one memory directory     *)
(***************************************************************************)
MaxProcs == 2
MaxStamps == 2

Procs    == 1..MaxProcs
Sessions == {"s1"}

NoFile     == [exists |-> FALSE, state |-> "ok", entries |-> <<>>]
NoConvFile == [exists |-> FALSE, data |-> <<>>]
NoInstance == [alive |-> FALSE, created |-> 0, entries |-> <<>>,
               conversations |-> <<>>, pc |-> "idle", pending |-> 0]
NoHistory  == [op |-> "none", proc |-> 0, session |-> "", turns |-> <<>>]

\* load_memory: the pickled list when the file exists and unpickles; pickle.load
\* of a file a writer has just truncated raises and leaves an empty list
load_memory(f) == IF f.exists /\ f.state = "ok" THEN f.entries ELSE <<>>

\* TextSimilarityMemory(memory_dir) in process p: empty entries and
\* conversations, then load_memory()
NewInstance(p) ==
    /\ ~mem[p].alive
    /\ mem' = [mem EXCEPT ![p] =
                  [alive |-> TRUE, created |-> next_id, entries |-> load_memory(file),
                   conversations |-> <<>>, pc |-> "idle", pending |-> 0]]
    /\ UNCHANGED <<file, conv_file, returned_ids, turns_added, next_id, history>>
    /\ UNCHANGED <<triage_vars, agent_vars, rag_vars, service_vars>>

\* process p ends; its instance is gone, the directory stays
Exit(p) ==
    /\ mem[p].alive /\ mem[p].pc = "idle"
    /\ mem' = [mem EXCEPT ![p] = NoInstance]
    /\ UNCHANGED <<file, conv_file, returned_ids, turns_added, next_id, history>>
    /\ UNCHANGED <<triage_vars, agent_vars, rag_vars, service_vars>>

\* Faulty variant: a writer waits until no other writer is between append and save
AddMemoryAppendLocked(p) ==
    /\ mem[p].alive /\ mem[p].pc = "idle"
    /\ \A o \in Procs : mem[o].pc = "idle"
    /\ next_id <= MaxStamps
    /\ mem' = [mem EXCEPT ![p].entries = Append(@, [id |-> next_id, timestamp |-> next_id]),
                          ![p].pc = "appended", ![p].pending = next_id]
    /\ next_id' = next_id + 1
    /\ UNCHANGED <<file, conv_file, returned_ids, turns_added, history>>
    /\ UNCHANGED <<triage_vars, agent_vars, rag_vars, service_vars>>

\* add_memory, first step: the entry is built and appended to self.entries
AddMemoryAppend(p) ==
    /\ mem[p].alive /\ mem[p].pc = "idle"
    /\ next_id <= MaxStamps
    /\ mem' = [mem EXCEPT ![p].entries = Append(@, [id |-> next_id, timestamp |-> next_id]),
                          ![p].pc = "appended", ![p].pending = next_id]
    /\ next_id' = next_id + 1
    /\ UNCHANGED <<file, conv_file, returned_ids, turns_added, history>>
    /\ UNCHANGED <<triage_vars, agent_vars, rag_vars, service_vars>>

\* save_memory, open(self.memory_file, 'wb'): the file is created or truncated
SaveMemoryOpen(p) ==
    /\ mem[p].alive /\ mem[p].pc = "appended"
    /\ file' = [exists |-> TRUE, state |-> "truncated", entries |-> <<>>]
    /\ mem' = [mem EXCEPT ![p].pc = "saving"]
    /\ UNCHANGED <<conv_file, returned_ids, turns_added, next_id, history>>
    /\ UNCHANGED <<triage_vars, agent_vars, rag_vars, service_vars>>

\* what pickle.dump(self.entries, f) and the close leave on disk
save_memory(entries, f) == [exists |-> TRUE, state |-> "ok", entries |-> entries]

\* save_memory, pickle.dump and close: the file holds this instance's list;
\* add_memory then returns the entry's id
SaveMemoryDump(p) ==
    /\ mem[p].alive /\ mem[p].pc = "saving"
    /\ file' = save_memory(mem[p].entries, file)
    /\ returned_ids' = returned_ids \cup {mem[p].pending}
    /\ mem' = [mem EXCEPT ![p].pc = "idle", ![p].pending = 0]
    /\ UNCHANGED <<conv_file, turns_added, next_id, history>>
    /\ UNCHANGED <<triage_vars, agent_vars, rag_vars, service_vars>>

\* the conversations dict after a turn is appended to session s
with_turn(conversations, s, turn) ==
    [k \in DOMAIN conversations \cup {s} |->
        IF k = s
        THEN (IF s \in DOMAIN conversations THEN conversations[s] ELSE <<>>) \o <<turn>>
        ELSE conversations[k]]

\* add_conversation_turn(session_id, ...): the turn is appended to the session's
\* list and save_conversations() rewrites conversations.json from self.conversations
AddConversationTurn(p, s) ==
    /\ mem[p].alive /\ mem[p].pc = "idle"
    /\ next_id <= MaxStamps
    /\ LET turn == [id |-> next_id, timestamp |-> next_id]
           convs == with_turn(mem[p].conversations, s, turn)
       IN /\ mem' = [mem EXCEPT ![p].conversations = convs]
          /\ conv_file' = [exists |-> TRUE, data |-> convs]
          /\ turns_added' = turns_added \cup {[session |-> s, turn |-> turn]}
    /\ next_id' = next_id + 1
    /\ UNCHANGED <<file, returned_ids, history>>
    /\ UNCHANGED <<triage_vars, agent_vars, rag_vars, service_vars>>

\* get_conversation_history(session_id)
get_conversation_history(conversations, s) ==
    IF s \notin DOMAIN conversations THEN <<>> ELSE conversations[s]

GetConversationHistory(p, s) ==
    /\ mem[p].alive /\ mem[p].pc = "idle"
    /\ history' = [op |-> "get", proc |-> p, session |-> s,
                   turns |-> get_conversation_history(mem[p].conversations, s)]
    /\ UNCHANGED <<file, conv_file, mem, returned_ids, turns_added, next_id>>
    /\ UNCHANGED <<triage_vars, agent_vars, rag_vars, service_vars>>

(***************************************************************************)
(* rag_system.py: RAGSystem over the persisted ChromaDB collection         *)
(***************************************************************************)
MaxSeed == 1
MaxTopK == 2
MaxDocs == 2

Seeds    == 0..MaxSeed
Contents == {"alpha", "beta"}
Sources  == {"a.txt", "b.txt"}

NoDocId   == [source |-> "", h |-> 0]
NoRagCall == [op |-> "none", arg |-> NoRet, queried |-> FALSE, added |-> FALSE,
              doc_id |-> NoDocId, ok |-> FALSE, results |-> {},
              status |-> 0, body |-> NoRet, counted |-> FALSE]

\* RAGSystem(): nothing initialised, no collection; CHROMADB_AVAILABLE is set by
\* the import at process start
NewRagSystem(available) ==
    [initialized |-> FALSE, collection |-> FALSE, chromadb_available |-> available]

ContentCode(c) == CASE c = "alpha" -> 11 [] c = "beta" -> 23 [] OTHER -> 5

\* hash(content): the built-in str hash, salted with the key the interpreter
\* draws at start-up (PYTHONHASHSEED); a signed value
py_hash(seed, c) == ((ContentCode(c) * 37 + seed * 101 + 7) % 64) - 32

Abs(n) == IF n < 0 THEN -n ELSE n

\* f"{source}_{abs(hash(content))}"
doc_id(seed, source, content) == [source |-> source, h |-> Abs(py_hash(seed, content))]

\* initialize(): the mock path when chromadb is missing; else the client and the
\* collection are created, unless that raises
initialize(r, outcome) ==
    IF ~r.chromadb_available THEN [r EXCEPT !.initialized = TRUE]
    ELSE IF outcome = "ok" THEN [r EXCEPT !.initialized = TRUE, !.collection = TRUE]
    ELSE r

\* rag_system.initialize(), as kb_manager calls it
Initialize ==
    /\ \E outcome \in {"ok", "raise"} :
          /\ rag' = initialize(rag, outcome)
          /\ rag_call' = [NoRagCall EXCEPT !.op = "initialize",
                             !.ok = initialize(rag, outcome).initialized]
    /\ UNCHANGED <<store, hash_seed, presented>>
    /\ UNCHANGED <<triage_vars, agent_vars, memory_vars, service_vars>>

\* metadatas=[metadata or {"source": source}]
doc_metadata(metadata, source) ==
    IF metadata = "none" THEN [has_source |-> TRUE, source |-> source]
    ELSE [has_source |-> FALSE, source |-> ""]

\* collection.add: a document under a new id is stored; an id already present
\* keeps its document
collection_add(docs, doc) ==
    IF \E d \in docs : d.id = doc.id THEN docs ELSE docs \cup {doc}

\* add_document(content, source, metadata): initialises the system when it is
\* not initialised yet; False without an add when chromadb is missing or there
\* is no collection; else collection.add under doc_id, True unless it raises
add_document(r0, docs, seed, content, source, metadata, init_outcome, add_outcome) ==
    LET r   == IF r0.initialized THEN r0 ELSE initialize(r0, init_outcome)
        id  == doc_id(seed, source, content)
        doc == [id |-> id, content |-> content,
                metadata |-> doc_metadata(metadata, source)]
    IN IF ~r.chromadb_available \/ ~r.collection
       THEN [rag |-> r, store |-> docs, added |-> FALSE, doc_id |-> NoDocId,
             ok |-> FALSE]
       ELSE [rag |-> r,
             store |-> IF add_outcome = "ok" THEN collection_add(docs, doc) ELSE docs,
             added |-> TRUE, doc_id |-> id, ok |-> (add_outcome = "ok")]

\* the (source, content, id) triples handed to collection.add so far
Presented(seen, a, source, content) ==
    IF a.added
    THEN seen \cup {[source |-> source, content |-> content, id |-> a.doc_id]}
    ELSE seen

\* rag_system.add_document(content, source, metadata), called directly
AddDocument ==
    /\ \E content \in Contents, source \in Sources, metadata \in {"none", "upload"},
          init_outcome \in {"ok", "raise"}, add_outcome \in {"ok", "raise"} :
          LET a == add_document(rag, store, hash_seed, content, source, metadata,
                                init_outcome, add_outcome)
          IN /\ Cardinality(presented \cup
                    {[source |-> source, content |-> content,
                      id |-> doc_id(hash_seed, source, content)]}) <= MaxDocs
             /\ rag' = a.rag
             /\ store' = a.store
             /\ presented' = Presented(presented, a, source, content)
             /\ rag_call' = [NoRagCall EXCEPT !.op = "add_document",
                                !.arg = [content |-> content, source |-> source],
                                !.added = a.added, !.doc_id = a.doc_id, !.ok = a.ok]
    /\ UNCHANGED hash_seed
    /\ UNCHANGED <<triage_vars, agent_vars, memory_vars, service_vars>>

\* get_document_count(): collection.count(), 0 without a collection or chromadb
\* and 0 when the count raises
get_document_count(r, docs, count_outcome) ==
    IF r.collection /\ r.chromadb_available /\ count_outcome = "ok"
    THEN Cardinality(docs) ELSE 0

\* the multipart body of POST /api/rag/upload
Filenames == {""} \cup Sources
UploadRequests ==
    [has_file : BOOLEAN, filename : Filenames, content : Contents]

\* Faulty variant of upload_document: the count is read before the document is
\* added.
upload_document_stale(r0, docs, seed, req, init_outcome, add_outcome, count_outcome) ==
    LET none == [rag |-> r0, store |-> docs, added |-> FALSE, doc_id |-> NoDocId,
                 ok |-> FALSE]
        a == add_document(r0, docs, seed, req.content, req.filename, "upload",
                          init_outcome, add_outcome)
    IN IF ~req.has_file \/ req.filename = ""
       THEN [status |-> 400, body |-> [error |-> "No file provided"], add |-> none]
       ELSE IF a.ok
       THEN [status |-> 200,
             body |-> [success |-> TRUE, message |-> "uploaded successfully",
                       document_count |->
                          get_document_count(a.rag, docs, count_outcome)],
             add |-> a]
       ELSE [status |-> 500,
             body |-> [error |-> "Failed to add document to knowledge base"],
             add |-> a]

\* upload_document: 400 without a file part or with an empty file name; else the
\* decoded content goes to add_document under the file's name, answered with
\* success, message and the document count, or with 500 and error when
\* add_document returned False
upload_document(r0, docs, seed, req, init_outcome, add_outcome, count_outcome) ==
    LET none == [rag |-> r0, store |-> docs, added |-> FALSE, doc_id |-> NoDocId,
                 ok |-> FALSE]
        a == add_document(r0, docs, seed, req.content, req.filename, "upload",
                          init_outcome, add_outcome)
    IN IF ~req.has_file
       THEN [status |-> 400, body |-> [error |-> "No file provided"], add |-> none]
       ELSE IF req.filename = ""
       THEN [status |-> 400, body |-> [error |-> "No file selected"], add |-> none]
       ELSE IF a.ok
       THEN [status |-> 200,
             body |-> [success |-> TRUE, message |-> "uploaded successfully",
                       document_count |->
                          get_document_count(a.rag, a.store, count_outcome)],
             add |-> a]
       ELSE [status |-> 500,
             body |-> [error |-> "Failed to add document to knowledge base"],
             add |-> a]

\* POST /api/rag/upload on the process's rag_system
UploadDocument ==
    /\ \E req \in UploadRequests, init_outcome \in {"ok", "raise"},
          add_outcome \in {"ok", "raise"}, count_outcome \in {"ok", "raise"} :
          LET u == upload_document(rag, store, hash_seed, req, init_outcome,
                                   add_outcome, count_outcome)
          IN /\ (req.has_file /\ req.filename # "") =>
                    Cardinality(presented \cup
                       {[source |-> req.filename, content |-> req.content,
                         id |-> doc_id(hash_seed, req.filename, req.content)]})
                       <= MaxDocs
             /\ rag' = u.add.rag
             /\ store' = u.add.store
             /\ presented' = Presented(presented, u.add, req.filename, req.content)
             /\ rag_call' = [NoRagCall EXCEPT !.op = "upload", !.arg = req,
                                !.added = u.add.added, !.doc_id = u.add.doc_id,
                                !.ok = u.add.ok, !.status = u.status,
                                !.body = u.body, !.counted = (count_outcome = "ok")]
    /\ UNCHANGED hash_seed
    /\ UNCHANGED <<triage_vars, agent_vars, memory_vars, service_vars>>

\* one hit of collection.query repackaged as a RAGResult
RAGResult(d) ==
    [content |-> d.content,
     source |-> IF d.metadata.has_source THEN d.metadata.source ELSE "Unknown",
     score |-> "1.0 - distance",
     metadata |-> d.metadata]

Min(a, b) == IF a < b THEN a ELSE b

\* search(query, top_k): [] without a query when the system is not initialised,
\* has no collection or chromadb is missing; else collection.query, whose
\* n_results nearest documents are repackaged, or [] when the query raises
Search ==
    /\ \E top_k \in 1..MaxTopK, outcome \in {"ok", "raise"} :
          IF ~rag.initialized \/ ~rag.collection \/ ~rag.chromadb_available
          THEN rag_call' = [NoRagCall EXCEPT !.op = "search"]
          ELSE IF outcome = "raise"
          THEN rag_call' = [NoRagCall EXCEPT !.op = "search", !.queried = TRUE]
          ELSE \E hits \in SUBSET store :
                  /\ Cardinality(hits) = Min(top_k, Cardinality(store))
                  /\ rag_call' = [NoRagCall EXCEPT !.op = "search", !.queried = TRUE,
                                     !.ok = TRUE,
                                     !.results = {RAGResult(d) : d \in hits}]
    /\ UNCHANGED <<rag, store, hash_seed, presented>>
    /\ UNCHANGED <<triage_vars, agent_vars, memory_vars, service_vars>>

\* the process ends and another starts on the same ./chroma_db
RestartRag ==
    /\ \E available \in BOOLEAN : rag' = NewRagSystem(available)
    /\ hash_seed' \in Seeds
    /\ rag_call' = NoRagCall
    /\ UNCHANGED <<store, presented>>
    /\ UNCHANGED <<triage_vars, agent_vars, memory_vars, service_vars>>

(***************************************************************************)
(* search_system.py, file_manager.py, vector_store_manager.py              *)
(***************************************************************************)
\* MaxFiles: file paths listed in one create_knowledge_base call
\* MaxPolls: sleep(5) intervals that fit into the longest timeout
MaxFiles == 2
MaxPolls == 2

\* a path handed to upload_file: a URL or a local path, whether the local file
\* exists, has a supported extension, and is within max_file_size_mb; a
\* downloaded file always exists once written
FilePaths ==
    {p \in [url : BOOLEAN, exists : BOOLEAN, ext_ok : BOOLEAN, size_ok : BOOLEAN] :
        p.url => p.exists}
FileLists == UNION {[1..n -> FilePaths] : n \in 0..MaxFiles}

Statuses == {"in_progress", "completed", "failed", "cancelled"}
StatusLists == UNION {[1..n -> Statuses] : n \in 0..MaxFiles}

Returned(v) == [kind |-> "return", value |-> v, exc |-> "None"]
Raised(e)   == [kind |-> "raise", value |-> NoRet, exc |-> e]
NoResult    == [kind |-> "none", value |-> NoRet, exc |-> "None"]

\* the id files.create answers with for the n-th upload of a call
FileId(n) == [file |-> n]
VectorStoreId == [vs |-> 1]

\* _upload_from_local: the three validations, then client.files.create; whatever
\* files.create raises is logged and re-raised as it is
upload_from_local(p, n, api_outcome) ==
    IF ~p.exists THEN Raised("FileNotFoundError")
    ELSE IF ~p.ext_ok THEN Raised("ValueError")
    ELSE IF ~p.size_ok THEN Raised("ValueError")
    ELSE IF api_outcome = "raise" THEN Raised("APIError")
    ELSE Returned(FileId(n))

\* _upload_from_url: extension check, download, size check, write, then
\* _upload_from_local on the written file; every exception is re-raised
upload_from_url(p, n, get_outcome, api_outcome) ==
    IF ~p.ext_ok THEN Raised("ValueError")
    ELSE IF get_outcome = "raise" THEN Raised("RequestException")
    ELSE IF ~p.size_ok THEN Raised("ValueError")
    ELSE upload_from_local([p EXCEPT !.exists = TRUE], n, api_outcome)

\* upload_file: dispatch on _is_url; the except clause logs and re-raises
upload_file(p, n, get_outcome, api_outcome) ==
    IF p.url THEN upload_from_url(p, n, get_outcome, api_outcome)
    ELSE upload_from_local(p, n, api_outcome)

\* Faulty variant of wait_step: a timeout is answered with False.
wait_step_false(timeout, elapsed, statuses, list_outcome, slept) ==
    IF ~(elapsed < timeout)
    THEN [res |-> Returned(FALSE), polled |-> FALSE, elapsed |-> elapsed]
    ELSE IF list_outcome = "raise"
    THEN [res |-> Raised("APIError"), polled |-> FALSE, elapsed |-> elapsed]
    ELSE IF \A i \in 1..Len(statuses) : statuses[i] = "completed"
    THEN [res |-> Returned(TRUE), polled |-> TRUE, elapsed |-> elapsed]
    ELSE IF \E i \in 1..Len(statuses) : statuses[i] \in {"failed", "cancelled"}
    THEN [res |-> Raised("RuntimeError"), polled |-> TRUE, elapsed |-> elapsed]
    ELSE [res |-> NoResult, polled |-> TRUE, elapsed |-> elapsed + slept]

\* one pass of the loop of wait_for_completion, started elapsed ticks after
\* start_time: TimeoutError once the timeout has elapsed; else the listing of
\* the store's files (which may raise), True when every listed status is
\* completed, RuntimeError on a failed or cancelled one, else sleep and go on
wait_step(timeout, elapsed, statuses, list_outcome, slept) ==
    IF ~(elapsed < timeout)
    THEN [res |-> Raised("TimeoutError"), polled |-> FALSE, elapsed |-> elapsed]
    ELSE IF list_outcome = "raise"
    THEN [res |-> Raised("APIError"), polled |-> FALSE, elapsed |-> elapsed]
    ELSE IF \A i \in 1..Len(statuses) : statuses[i] = "completed"
    THEN [res |-> Returned(TRUE), polled |-> TRUE, elapsed |-> elapsed]
    ELSE IF \E i \in 1..Len(statuses) : statuses[i] = "failed"
    THEN [res |-> Raised("RuntimeError"), polled |-> TRUE, elapsed |-> elapsed]
    ELSE IF \E i \in 1..Len(statuses) : statuses[i] = "cancelled"
    THEN [res |-> Raised("RuntimeError"), polled |-> TRUE, elapsed |-> elapsed]
    ELSE [res |-> NoResult, polled |-> TRUE, elapsed |-> elapsed + slept]

NoStore == [created |-> FALSE, statuses |-> <<>>]
NoPoll  == [seen |-> FALSE, statuses |-> <<>>, at |-> 0]

NoKb == [pc |-> "idle", op |-> "none", file_paths |-> <<>>, file_ids |-> <<>>,
         attempts |-> 0, path |-> NoRet, api |-> "none", upload |-> NoResult,
         store |-> NoStore, timeout |-> 0, elapsed |-> 0, poll |-> NoPoll,
         wait |-> NoResult, result |-> NoResult]

\* wait_for_completion's default timeout of 300 s, in sleep(5) intervals scaled
\* to the bound
DefaultTimeout == MaxPolls

\* file_uploader.upload_file(file_path), called directly
UploadFile ==
    /\ kb.pc = "idle"
    /\ \E p \in FilePaths, get_outcome \in {"ok", "raise"}, api_outcome \in {"ok", "raise"} :
          LET r == upload_file(p, 1, get_outcome, api_outcome)
          IN kb' = [NoKb EXCEPT !.pc = "done", !.op = "upload_file", !.path = p,
                       !.attempts = 1, !.upload = r, !.result = r]
    /\ UNCHANGED <<enhanced, ingestion, component_vars>>
    /\ UNCHANGED <<triage_vars, agent_vars, memory_vars, rag_vars>>

\* create_knowledge_base(name, file_paths) is entered: file_ids = []
CreateKnowledgeBase ==
    /\ kb.pc = "idle"
    /\ \E fl \in FileLists :
          kb' = [NoKb EXCEPT !.pc = "uploading", !.op = "create_knowledge_base",
                    !.file_paths = fl]
    /\ UNCHANGED <<enhanced, ingestion, component_vars>>
    /\ UNCHANGED <<triage_vars, agent_vars, memory_vars, rag_vars>>

\* Faulty variant of UploadListed: the uploader's exception leaves
\* create_knowledge_base unwrapped.
UploadListedUnwrapped ==
    /\ kb.pc = "uploading" /\ Len(kb.file_ids) < Len(kb.file_paths)
    /\ \E get_outcome \in {"ok", "raise"}, api_outcome \in {"ok", "raise"} :
          LET n == Len(kb.file_ids) + 1
              p == kb.file_paths[n]
              r == upload_file(p, n, get_outcome, api_outcome)
          IN IF r.kind = "return"
             THEN kb' = [kb EXCEPT !.file_ids = Append(@, r.value), !.path = p,
                            !.attempts = @ + 1, !.upload = r]
             ELSE kb' = [kb EXCEPT !.path = p, !.attempts = @ + 1, !.upload = r,
                            !.pc = "done", !.result = r]
    /\ UNCHANGED <<enhanced, ingestion, component_vars>>
    /\ UNCHANGED <<triage_vars, agent_vars, memory_vars, rag_vars>>

\* one pass of the upload loop: the id is appended, or the exception is wrapped
\* in FileProcessingError and leaves create_knowledge_base
UploadListed ==
    /\ kb.pc = "uploading" /\ Len(kb.file_ids) < Len(kb.file_paths)
    /\ \E get_outcome \in {"ok", "raise"}, api_outcome \in {"ok", "raise"} :
          LET n == Len(kb.file_ids) + 1
              p == kb.file_paths[n]
              r == upload_file(p, n, get_outcome, api_outcome)
          IN IF r.kind = "return"
             THEN kb' = [kb EXCEPT !.file_ids = Append(@, r.value), !.path = p,
                            !.attempts = @ + 1, !.upload = r]
             ELSE kb' = [kb EXCEPT !.path = p, !.attempts = @ + 1, !.upload = r,
                            !.pc = "done",
                            !.result = Raised("FileProcessingError")]
    /\ UNCHANGED <<enhanced, ingestion, component_vars>>
    /\ UNCHANGED <<triage_vars, agent_vars, memory_vars, rag_vars>>

\* after the loop: create_vector_store(name, file_ids), wrapped in
\* VectorStoreError when it raises; then wait_for_completion is entered with
\* its default timeout
CreateVectorStore ==
    /\ kb.pc = "uploading" /\ Len(kb.file_ids) = Len(kb.file_paths)
    /\ \E outcome \in {"ok", "raise"} :
          IF outcome = "ok"
          THEN kb' = [kb EXCEPT !.pc = "waiting",
                         !.store = [created |-> TRUE,
                                    statuses |-> [i \in 1..Len(kb.file_ids) |->
                                                     "in_progress"]],
                         !.timeout = DefaultTimeout, !.elapsed = 0]
          ELSE kb' = [kb EXCEPT !.pc = "done", !.result = Raised("VectorStoreError")]
    /\ UNCHANGED <<enhanced, ingestion, component_vars>>
    /\ UNCHANGED <<triage_vars, agent_vars, memory_vars, rag_vars>>

\* vector_store_manager.wait_for_completion(vector_store_id, timeout), called
\* directly on a store whose files are in any state
WaitForCompletion ==
    /\ kb.pc = "idle"
    /\ \E sl \in StatusLists, t \in 0..MaxPolls :
          kb' = [NoKb EXCEPT !.pc = "waiting", !.op = "wait_for_completion",
                    !.store = [created |-> TRUE, statuses |-> sl], !.timeout = t]
    /\ UNCHANGED <<enhanced, ingestion, component_vars>>
    /\ UNCHANGED <<triage_vars, agent_vars, memory_vars, rag_vars>>

\* Faulty variant of after_wait: a timeout still yields the store id.
after_wait_lenient(res) ==
    IF res.kind = "return" \/ res.exc = "TimeoutError" THEN Returned(VectorStoreId)
    ELSE Raised("VectorStoreError")

\* what create_knowledge_base makes of the end of wait_for_completion: the store
\* id on True, VectorStoreError on False and on every exception
after_wait(res) ==
    IF res.kind = "return" /\ res.value = TRUE THEN Returned(VectorStoreId)
    ELSE Raised("VectorStoreError")

\* one pass of the polling loop of the running wait_for_completion
Poll ==
    /\ kb.pc = "waiting"
    /\ \E list_outcome \in {"ok", "raise"}, slept \in 1..2 :
          LET w == wait_step(kb.timeout, kb.elapsed, kb.store.statuses,
                             list_outcome, slept)
              seen == IF w.polled
                      THEN [seen |-> TRUE, statuses |-> kb.store.statuses,
                            at |-> kb.elapsed]
                      ELSE kb.poll
          IN IF w.res.kind = "none"
             THEN kb' = [kb EXCEPT !.elapsed = w.elapsed, !.poll = seen]
             ELSE kb' = [kb EXCEPT !.pc = "done", !.poll = seen, !.wait = w.res,
                            !.result = IF kb.op = "create_knowledge_base"
                                       THEN after_wait(w.res) ELSE w.res]
    /\ UNCHANGED <<enhanced, ingestion, component_vars>>
    /\ UNCHANGED <<triage_vars, agent_vars, memory_vars, rag_vars>>

\* the service finishes processing one file of the store
Process ==
    /\ kb.pc = "waiting"
    /\ \E i \in 1..Len(kb.store.statuses), s \in Statuses \ {"in_progress"} :
          /\ kb.store.statuses[i] = "in_progress"
          /\ kb' = [kb EXCEPT !.store.statuses[i] = s]
    /\ UNCHANGED <<enhanced, ingestion, component_vars>>
    /\ UNCHANGED <<triage_vars, agent_vars, memory_vars, rag_vars>>

\* the caller has the outcome of its call and may call again
NextCall ==
    /\ kb.pc = "done"
    /\ kb' = NoKb
    /\ UNCHANGED <<enhanced, ingestion, component_vars>>
    /\ UNCHANGED <<triage_vars, agent_vars, memory_vars, rag_vars>>

(***************************************************************************)
(* unified_agent_system_rag_integration.py and the /api/code routes        *)
(***************************************************************************)
\* the agent types _initialize_rag_enhanced_agents wraps
CodeAgentTypes == {"code_analyzer", "code_debugger", "code_repair", "performance",
                   "test_generator", "ceo", "research"}

\* analyze_code.agent_type_mapping, with its default
AnalysisTypes == {"general", "performance", "debugging", "security", "testing"}
agent_type_mapping(analysis_type) ==
    CASE analysis_type = "general"     -> "code_analyzer"
      [] analysis_type = "performance" -> "performance"
      [] analysis_type = "debugging"   -> "code_debugger"
      [] analysis_type = "security"    -> "ceo"
      [] analysis_type = "testing"     -> "test_generator"
      [] OTHER                         -> "code_analyzer"

\* the context argument: None, a dict, or a truthy JSON value that is no dict
ContextKinds == {"None", "dict", "list"}

\* asyncio.run(coro): RuntimeError when the calling thread is already running an
\* event loop, else the coroutine's result
asyncio_run(in_loop) == IF in_loop THEN "RuntimeError" ELSE "ok"

\* RAGQueryType values
RAGQueryTypes == {"code_analysis", "performance_optimization", "debugging_patterns",
                  "best_practices", "security_review", "testing_strategies"}

\* self.rag_specializations.get(self.agent_type, [BEST_PRACTICES])
rag_specializations(agent_type) ==
    CASE agent_type = "code_analyzer"  -> <<"code_analysis", "best_practices">>
      [] agent_type = "code_debugger"  -> <<"debugging_patterns", "testing_strategies">>
      [] agent_type = "code_repair"    -> <<"debugging_patterns", "best_practices">>
      [] agent_type = "performance"    -> <<"performance_optimization", "best_practices">>
      [] agent_type = "test_generator" -> <<"testing_strategies", "best_practices">>
      [] agent_type = "ceo"            -> <<"best_practices", "security_review">>
      [] agent_type = "research"       -> <<"best_practices", "code_analysis">>
      [] OTHER                         -> <<"best_practices">>

\* what rag_system.assisted_search would do for the i-th query type, if called
Searches == [1..2 -> {"ok", "raise"}]

\* _get_relevant_vector_stores(query_type): always the empty list
get_relevant_vector_stores(query_type) == <<>>

\* _calculate_confidence_score, in percent: the share of the rag_context values
\* that are dicts without an 'error' key, 0.0 for an empty context
calculate_confidence_score(rag_context) ==
    IF DOMAIN rag_context = {} THEN 0
    ELSE (Cardinality({k \in DOMAIN rag_context : "error" \notin DOMAIN rag_context[k]})
            * 100) \div Cardinality(DOMAIN rag_context)

\* the for-loop of enhanced_query from query type i on: a query type is searched
\* only when it has vector stores; the result, or the error of a search that
\* raised, goes into rag_context and a result's sources are collected
RECURSIVE rag_searches(_, _, _, _)
rag_searches(query_types, searches, i, acc) ==
    IF i > Len(query_types) THEN acc
    ELSE LET query_type == query_types[i]
         IN IF get_relevant_vector_stores(query_type) = <<>>
            THEN rag_searches(query_types, searches, i + 1, acc)
            ELSE IF searches[i] = "ok"
            THEN rag_searches(query_types, searches, i + 1,
                     [rag_context |-> dict_set(acc.rag_context, query_type,
                                               [sources |-> <<query_type>>]),
                      sources |-> Append(acc.sources, query_type),
                      calls |-> acc.calls + 1])
            ELSE rag_searches(query_types, searches, i + 1,
                     [rag_context |-> dict_set(acc.rag_context, query_type,
                                               [error |-> "SearchError"]),
                      sources |-> acc.sources,
                      calls |-> acc.calls + 1])

\* enhanced_query(query, context) of the enhanced agent of one agent type
enhanced_query(agent_type, searches) ==
    LET query_types == rag_specializations(agent_type)
        r == rag_searches(query_types, searches, 1,
                          [rag_context |-> <<>>, sources |-> <<>>, calls |-> 0])
    IN [rag_context |-> r.rag_context, sources |-> r.sources,
        query_type |-> query_types[1],
        vector_store_ids |-> get_relevant_vector_stores(query_types[1]),
        confidence_score |-> calculate_confidence_score(r.rag_context),
        assisted_search_calls |-> r.calls]

\* _format_response_with_citations: the response, then up to five sources, then
\* the confidence line when the score is positive
format_response_with_citations(response, eq) ==
    [response |-> response,
     sources |-> SubSeq(eq.sources, 1, Min(5, Len(eq.sources))),
     confidence |-> eq.confidence_score > 0]

\* RAGEnhancedAgent.run: asyncio.run(enhanced_query), context.update, the
\* enhanced prompt to the base agent, the formatted response; on any exception
\* the base agent is run on the plain query and its response is returned as is
rag_enhanced_run(cl, ag, agent_type, context, in_loop, outs, searches) ==
    IF asyncio_run(in_loop) # "ok" \/ context = "list"
    THEN [prompt |-> "query", formatted |-> FALSE,
          raised |-> IF in_loop THEN "RuntimeError" ELSE "AttributeError",
          ret |-> run(cl, ag, outs).value]
    ELSE [prompt |-> "enhanced_prompt", formatted |-> TRUE, raised |-> "None",
          ret |-> format_response_with_citations(run(cl, ag, outs).value,
                                                 enhanced_query(agent_type, searches))]

\* the JSON body of POST /api/code/analyze
AnalyzeRequests ==
    [truthy : BOOLEAN, has_code : BOOLEAN,
     analysis_type : AnalysisTypes \cup {"bogus"}, context : ContextKinds]

NoEnhanced == [op |-> "none", agent_type |-> "none", context |-> "None",
               in_loop |-> FALSE, ran |-> FALSE, prompt |-> "none",
               formatted |-> FALSE, raised |-> "None", ret |-> NoRet, status |-> 0,
               searches |-> <<>>]

\* enhanced_agent.run(query, context), called by synchronous code
EnhancedRun ==
    /\ \E t \in CodeAgentTypes, context \in ContextKinds, outs \in Outcomes,
          searches \in Searches :
          LET r == rag_enhanced_run(client, agents[t], t, context, FALSE, outs,
                                    searches)
          IN enhanced' = [NoEnhanced EXCEPT !.op = "run", !.agent_type = t,
                             !.context = context, !.ran = TRUE,
                             !.prompt = r.prompt, !.formatted = r.formatted,
                             !.raised = r.raised, !.ret = r.ret]
    /\ UNCHANGED <<kb, ingestion, component_vars>>
    /\ UNCHANGED <<triage_vars, agent_vars, memory_vars, rag_vars>>

\* await enhanced_agent.enhanced_query(query, context)
EnhancedQuery ==
    /\ \E t \in CodeAgentTypes \cup {"executor"}, searches \in Searches :
          enhanced' = [NoEnhanced EXCEPT !.op = "enhanced_query", !.agent_type = t,
                          !.searches = searches,
                          !.ret = enhanced_query(t, searches)]
    /\ UNCHANGED <<kb, ingestion, component_vars>>
    /\ UNCHANGED <<triage_vars, agent_vars, memory_vars, rag_vars>>

\* POST /api/code/analyze: the handler is a coroutine that async_route executes
\* with asyncio.run, so orchestrator.analyze_code and the enhanced agent's run
\* execute inside a running event loop
AnalyzeCode ==
    /\ \E data \in AnalyzeRequests, outs \in Outcomes, searches \in Searches :
          IF ~data.truthy \/ ~data.has_code \/ data.analysis_type \notin AnalysisTypes
          THEN enhanced' = [NoEnhanced EXCEPT !.op = "analyze_code", !.in_loop = TRUE,
                               !.context = data.context, !.status = 400]
          ELSE LET t == agent_type_mapping(data.analysis_type)
                   r == rag_enhanced_run(client, agents[t], t, data.context, TRUE,
                                         outs, searches)
               IN enhanced' = [NoEnhanced EXCEPT !.op = "analyze_code",
                                  !.agent_type = t, !.context = data.context,
                                  !.in_loop = TRUE, !.ran = TRUE,
                                  !.prompt = r.prompt, !.formatted = r.formatted,
                                  !.raised = r.raised, !.ret = r.ret,
                                  !.status = 200]
    /\ UNCHANGED <<kb, ingestion, component_vars>>
    /\ UNCHANGED <<triage_vars, agent_vars, memory_vars, rag_vars>>

(***************************************************************************)
(* integrations/report_ingestion.py                                        *)
(***************************************************************************)
MaxReports == 2

ReportNames == 1..MaxReports

\* extensions a file under the reports directory can have: one both sides
\* support, one only the ingestion globs for, one only the uploader accepts
Extensions == {".pdf", ".csv", ".html"}

\* the extensions manual_bulk_ingestion globs for
report_extensions == {".pdf", ".txt", ".docx", ".md", ".json", ".csv"}

\* FileUploader.supported_extensions
supported_extensions == {".pdf", ".docx", ".txt", ".md", ".html", ".json"}

\* SearchSystem.upload_file(file_path, vector_store_id): the uploader, then
\* add_files_to_store and files.retrieve; every exception is wrapped in
\* FileProcessingError
search_upload_file(p, n, api_outcome, add_outcome) ==
    LET r == upload_file(p, n, "ok", api_outcome)
    IN IF r.kind = "raise" \/ add_outcome = "raise"
       THEN Raised("FileProcessingError")
       ELSE Returned([id |-> r.value, vector_store_id |-> VectorStoreId])

\* _should_ingest_file: not a file modified more than 7 days ago, and no success
\* entry in ingestion_log that is newer than the file's modification time
should_ingest_file(f, log) == ~f.old /\ f.name \notin log

\* the local path of a report as the uploader sees it
report_path(f) ==
    [url |-> FALSE, exists |-> TRUE, ext_ok |-> f.ext \in supported_extensions,
     size_ok |-> TRUE]

\* manual_bulk_ingestion: glob the report extensions, get or create the vector
\* store (an exception there is the top-level error), then for each file skip
\* it or upload it, counting and logging success and failure
manual_bulk_ingestion(files, log, store_outcome, api, add) ==
    LET report_files == {f \in files : f.ext \in report_extensions}
        tried == {f \in report_files : should_ingest_file(f, log)}
        done  == {f \in tried :
                    search_upload_file(report_path(f), f.name, api[f.name],
                                       add[f.name]).kind = "return"}
    IN IF store_outcome = "raise"
       THEN [error |-> TRUE, total_files |-> Cardinality(report_files),
             successful |-> 0, failed |-> 0, uploaded |-> {}]
       ELSE [error |-> FALSE, total_files |-> Cardinality(report_files),
             successful |-> Cardinality(done),
             failed |-> Cardinality(tried \ done),
             uploaded |-> {f.name : f \in done}]

NoRun == [op |-> "none", error |-> FALSE, total_files |-> 0, successful |-> 0,
          failed |-> 0]

\* ReportIngestion(): the reports directory exists, ingestion_log = []
NoIngestion == [files |-> {}, uploaded |-> {}, log |-> {}, last |-> NoRun]

\* the reporting system writes a new report file
WriteReport ==
    /\ \E n \in ReportNames, e \in Extensions :
          /\ \A f \in ingestion.files : f.name # n
          /\ ingestion' = [ingestion EXCEPT
                               !.files = @ \cup {[name |-> n, ext |-> e, old |-> FALSE]},
                               !.last = NoRun]
    /\ UNCHANGED <<kb, enhanced, component_vars>>
    /\ UNCHANGED <<triage_vars, agent_vars, memory_vars, rag_vars>>

\* seven days pass without a report being modified
AgeReport ==
    /\ \E f \in ingestion.files :
          /\ ~f.old
          /\ ingestion' = [ingestion EXCEPT
                               !.files = (@ \ {f}) \cup {[f EXCEPT !.old = TRUE]},
                               !.last = NoRun]
    /\ UNCHANGED <<kb, enhanced, component_vars>>
    /\ UNCHANGED <<triage_vars, agent_vars, memory_vars, rag_vars>>

\* the process restarts: a new ReportIngestion with an empty ingestion_log
RestartIngestion ==
    /\ ingestion.log # {}
    /\ ingestion' = [ingestion EXCEPT !.log = {}, !.last = NoRun]
    /\ UNCHANGED <<kb, enhanced, component_vars>>
    /\ UNCHANGED <<triage_vars, agent_vars, memory_vars, rag_vars>>

\* ReportIngestion.manual_bulk_ingestion()
ManualBulkIngestion ==
    /\ \E store_outcome \in {"ok", "raise"},
          api \in [ReportNames -> {"ok", "raise"}],
          add \in [ReportNames -> {"ok", "raise"}] :
          LET r == manual_bulk_ingestion(ingestion.files, ingestion.log,
                                         store_outcome, api, add)
          IN ingestion' = [ingestion EXCEPT
                              !.uploaded = @ \cup r.uploaded,
                              !.log = @ \cup r.uploaded,
                              !.last = [op |-> "manual_bulk_ingestion",
                                        error |-> r.error,
                                        total_files |-> r.total_files,
                                        successful |-> r.successful,
                                        failed |-> r.failed]]
    /\ UNCHANGED <<kb, enhanced, component_vars>>
    /\ UNCHANGED <<triage_vars, agent_vars, memory_vars, rag_vars>>

(***************************************************************************)
(* agents_ollama.py: the Ollama-backed ExecutorWithFallback                *)
(***************************************************************************)
\* executions of one run of the model
MaxExecutions == 4

\* _call_ollama: the mock text without the library, the generated text, or, for
\* any exception of the call, the text "Error calling Ollama: ..." as the result
call_ollama(available, model, outcome) ==
    IF ~available THEN [kind |-> "mock", model |-> model]
    ELSE IF outcome = "ok" THEN [kind |-> "response", model |-> model]
    ELSE [kind |-> "error_text", model |-> model]

\* _execute_task: task.get(...) twice, then the value _call_ollama returns
execute_task(available, model, task, outcome) ==
    IF task # "dict" THEN Raised("AttributeError")
    ELSE Returned(call_ollama(available, model, outcome))

\* what execute returns
OllamaResponse(success, result, used_fallback, error) ==
    [success |-> success, result |-> result, used_fallback |-> used_fallback,
     error |-> error]

\* ExecutorWithFallback.execute(task): the primary attempt, and only when it
\* raised the attempt on self.fallback_model, self.model being restored after
execute(ex, available, task, outs) ==
    LET primary  == execute_task(available, ex.model, task, outs[1])
        fallback == execute_task(available, ex.fallback_model, task, outs[2])
    IN IF primary.kind = "return"
       THEN [ex |-> [ex EXCEPT !.total_executions = @ + 1,
                               !.successful_executions = @ + 1],
             response |-> OllamaResponse(TRUE, primary.value, FALSE, "None"),
             generate_calls |-> IF available THEN 1 ELSE 0]
       ELSE IF fallback.kind = "return"
       THEN [ex |-> [ex EXCEPT !.total_executions = @ + 1,
                               !.successful_executions = @ + 1],
             response |-> OllamaResponse(TRUE, fallback.value, TRUE, "None"),
             generate_calls |-> 0]
       ELSE [ex |-> [ex EXCEPT !.total_executions = @ + 1],
             response |-> OllamaResponse(FALSE, NoRet, FALSE,
                                         "Both primary and fallback execution failed"),
             generate_calls |-> 0]

\* before agents_ollama is imported
NoOllama == [imported |-> FALSE, available |-> FALSE,
             executor |-> [model |-> "phi3.5", fallback_model |-> "llama2",
                           total_executions |-> 0, successful_executions |-> 0],
             last |-> [op |-> "none", task |-> "None", outs |-> <<>>,
                       response |-> NoRet, generate_calls |-> 0]]

\* import agents_ollama sets OLLAMA_AVAILABLE; ExecutorWithFallback() is built
ImportOllama ==
    /\ ~ollama.imported
    /\ \E available \in BOOLEAN :
          ollama' = [ollama EXCEPT !.imported = TRUE, !.available = available]
    /\ UNCHANGED <<recall, cleanup>>
    /\ UNCHANGED <<kb, enhanced, ingestion>>
    /\ UNCHANGED <<triage_vars, agent_vars, memory_vars, rag_vars>>

\* await executor.execute(task): the task is a dict or a value that has no
\* get(); outs is what ollama.generate does on the primary and the fallback model
OllamaExecute ==
    /\ ollama.imported
    /\ ollama.executor.total_executions < MaxExecutions
    /\ \E task \in {"dict", "None"}, outs \in [1..2 -> {"ok", "raise"}] :
          LET r == execute(ollama.executor, ollama.available, task, outs)
          IN ollama' = [ollama EXCEPT
                           !.executor = r.ex,
                           !.last = [op |-> "execute", task |-> task, outs |-> outs,
                                     response |-> r.response,
                                     generate_calls |-> r.generate_calls]]
    /\ UNCHANGED <<recall, cleanup>>
    /\ UNCHANGED <<kb, enhanced, ingestion>>
    /\ UNCHANGED <<triage_vars, agent_vars, memory_vars, rag_vars>>

(***************************************************************************)
(* vector_memory_text.py: search_memory and cleanup_old_memories of one    *)
(* TextSimilarityMemory                                                    *)
(***************************************************************************)
\* entries one instance holds
MaxEntries == 2

\* texts are sequences of lower-case words; "the" is one of the stop words
stop_words == {"the"}

\* _extract_keywords as a set: the words that are no stop words (every word of
\* the texts above is longer than two characters and there are fewer than 20)
extract_keywords(text) == {text[i] : i \in 1..Len(text)} \ stop_words

\* Counter(words)[w]
TermCount(text, w) == Cardinality({i \in 1..Len(text) : text[i] = w})

RECURSIVE SumOver(_, _)
SumOver(S, f) ==
    IF S = {} THEN 0
    ELSE LET w == CHOOSE x \in S : TRUE IN f[w] + SumOver(S \ {w}, f)

\* math.sqrt on hundredths: the largest r with r * r <= n, for n <= 10000
Isqrt(n) == CHOOSE r \in 0..100 : r * r <= n /\ (r + 1) * (r + 1) > n

\* _calculate_similarity, in hundredths: Jaccard similarity of the keyword sets
calculate_similarity(keywords1, keywords2) ==
    IF keywords1 = {} \/ keywords2 = {} THEN 0
    ELSE (Cardinality(keywords1 \cap keywords2) * 100)
            \div Cardinality(keywords1 \cup keywords2)

\* _calculate_tfidf_similarity, in hundredths: cosine of the term-count vectors
calculate_tfidf_similarity(text1, text2) ==
    LET vocab == {text1[i] : i \in 1..Len(text1)} \cup {text2[i] : i \in 1..Len(text2)}
        dot   == SumOver(vocab, [w \in vocab |-> TermCount(text1, w) * TermCount(text2, w)])
        sq1   == SumOver(vocab, [w \in vocab |-> TermCount(text1, w) * TermCount(text1, w)])
        sq2   == SumOver(vocab, [w \in vocab |-> TermCount(text2, w) * TermCount(text2, w)])
    IN IF vocab = {} \/ sq1 = 0 \/ sq2 = 0 THEN 0
       ELSE Isqrt((dot * dot * 10000) \div (sq1 * sq2))

\* 0.7 * tfidf_sim + 0.3 * keyword_sim, in thousandths
relevance(q, entry) ==
    7 * calculate_tfidf_similarity(q, entry.content)
      + 3 * calculate_similarity(extract_keywords(q), extract_keywords(entry.content))

\* `if agent_name:` / `if entry_type:`: None and '' apply no filter
passes(filter, value) == filter \in {"None", ""} \/ value = filter

\* sorted(..., key=relevance_score, reverse=True): stable, so entries of equal
\* score keep their order; e is inserted behind the entries scoring >= e
RECURSIVE sorted_desc(_)
sorted_desc(s) ==
    IF s = <<>> THEN <<>>
    ELSE LET rest == sorted_desc(Tail(s))
             e == Head(s)
             before == {i \in 1..Len(rest) : rest[i].relevance_score > e.relevance_score}
         IN SubSeq(rest, 1, Cardinality(before)) \o <<e>>
               \o SubSeq(rest, Cardinality(before) + 1, Len(rest))

\* Faulty variant of search_memory: the filtered entries are not sorted
search_memory_unsorted(entries, q, agent_name, entry_type, top_k) ==
    IF q.type # "str"
    THEN [entries |-> entries, result |-> <<>>, raised |-> "AttributeError"]
    ELSE LET scored == [i \in 1..Len(entries) |->
                          IF passes(agent_name, entries[i].agent_name)
                             /\ passes(entry_type, entries[i].entry_type)
                          THEN [entries[i] EXCEPT !.relevance_score =
                                                      relevance(q.chars, entries[i])]
                          ELSE entries[i]]
             filtered == SelectSeq(scored,
                            LAMBDA e : /\ passes(agent_name, e.agent_name)
                                       /\ passes(entry_type, e.entry_type))
         IN [entries |-> scored,
             result |-> SubSeq(filtered, 1, Min(top_k, Len(filtered))),
             raised |-> "None"]

\* search_memory(query, agent_name, entry_type, top_k): the filters, a score on
\* each filtered entry (written into the stored entry), the stable sort, the
\* first top_k; any exception is logged and [] is returned
search_memory(entries, q, agent_name, entry_type, top_k) ==
    IF q.type # "str"
    THEN [entries |-> entries, result |-> <<>>, raised |-> "AttributeError"]
    ELSE LET scored == [i \in 1..Len(entries) |->
                          IF passes(agent_name, entries[i].agent_name)
                             /\ passes(entry_type, entries[i].entry_type)
                          THEN [entries[i] EXCEPT !.relevance_score =
                                                      relevance(q.chars, entries[i])]
                          ELSE entries[i]]
             filtered == SelectSeq(scored,
                            LAMBDA e : /\ passes(agent_name, e.agent_name)
                                       /\ passes(entry_type, e.entry_type))
             sorted_entries == sorted_desc(filtered)
         IN [entries |-> scored,
             result |-> SubSeq(sorted_entries, 1, Min(top_k, Len(sorted_entries))),
             raised |-> "None"]

\* TextSimilarityMemory() over an empty directory, no search_memory call yet
NoRecall ==
    [entries |-> <<>>,
     last |-> [op |-> "none", query |-> NonStrQuery, agent_name |-> "None",
               entry_type |-> "None", top_k |-> 0, result |-> <<>>,
               raised |-> "None"]]

\* add_memory(content, agent_name, entry_type): the new entry has no score yet
RecallAdd ==
    /\ recall.last.op = "none"
    /\ Len(recall.entries) < MaxEntries
    /\ \E content \in {<<"fix", "bug">>, <<"bug">>}, agent_name \in {"A", "B"},
          entry_type \in {"knowledge", "task_result"} :
          recall' = [recall EXCEPT !.entries =
                        Append(@, [id |-> Len(recall.entries) + 1, content |-> content,
                                   agent_name |-> agent_name, entry_type |-> entry_type,
                                   relevance_score |-> -1])]
    /\ UNCHANGED <<ollama, cleanup>>
    /\ UNCHANGED <<kb, enhanced, ingestion>>
    /\ UNCHANGED <<triage_vars, agent_vars, memory_vars, rag_vars>>

\* the first search_memory call on the instance: a query that may not be a
\* string, filters that are None, empty or a name, and top_k
SearchMemory ==
    /\ recall.last.op = "none"
    /\ \E q \in {StrQuery(<<"fix">>), StrQuery(<<"bug", "the">>), NonStrQuery},
          agent_name \in {"None", "", "A"}, entry_type \in {"None", "", "knowledge"},
          top_k \in 0..(MaxEntries + 1) :
          LET r == search_memory(recall.entries, q, agent_name, entry_type, top_k)
          IN recall' = [entries |-> r.entries,
                        last |-> [op |-> "search", query |-> q,
                                  agent_name |-> agent_name, entry_type |-> entry_type,
                                  top_k |-> top_k, result |-> r.result,
                                  raised |-> r.raised]]
    /\ UNCHANGED <<ollama, cleanup>>
    /\ UNCHANGED <<kb, enhanced, ingestion>>
    /\ UNCHANGED <<triage_vars, agent_vars, memory_vars, rag_vars>>

\* days the clock of one run advances
MaxClock == 2

\* save_conversations: conversations.json rewritten from self.conversations
save_conversations(conversations) == [exists |-> TRUE, data |-> conversations]

\* cleanup_old_memories(max_age_days), the clock reading now (in days): entries
\* and turns with timestamp > cutoff_time stay, a session left empty is deleted;
\* the two files are rewritten only when at least one entry was removed
cleanup_old_memories(m, now, max_age_days) ==
    LET cutoff_time == now - max_age_days
        entries == SelectSeq(m.entries, LAMBDA e : e.timestamp > cutoff_time)
        kept == [s \in DOMAIN m.conversations |->
                    SelectSeq(m.conversations[s], LAMBDA t : t.timestamp > cutoff_time)]
        conversations == [s \in {k \in DOMAIN kept : kept[k] # <<>>} |-> kept[s]]
        removed_count == Len(m.entries) - Len(entries)
    IN [m EXCEPT !.entries = entries,
                 !.conversations = conversations,
                 !.file = IF removed_count > 0 THEN save_memory(entries, m.file)
                          ELSE m.file,
                 !.conv_file = IF removed_count > 0
                               THEN save_conversations(conversations)
                               ELSE m.conv_file]

NoCleanupCall == [op |-> "none", max_age_days |-> 0]

\* TextSimilarityMemory() over an empty directory, at day 0
NoCleanup == [entries |-> <<>>, conversations |-> <<>>, file |-> NoFile,
              conv_file |-> NoConvFile, now |-> 0, added |-> 0,
              last |-> NoCleanupCall]

\* a day passes
Tick ==
    /\ cleanup.now < MaxClock
    /\ cleanup' = [cleanup EXCEPT !.now = @ + 1, !.last = NoCleanupCall]
    /\ UNCHANGED <<ollama, recall>>
    /\ UNCHANGED <<kb, enhanced, ingestion>>
    /\ UNCHANGED <<triage_vars, agent_vars, memory_vars, rag_vars>>

\* add_memory: the entry, stamped with the time, is appended and save_memory()
\* rewrites text_memory.pkl
CleanupAddMemory ==
    /\ cleanup.added < MaxEntries
    /\ LET entries == Append(cleanup.entries,
                             [id |-> cleanup.added + 1, timestamp |-> cleanup.now])
       IN cleanup' = [cleanup EXCEPT !.entries = entries,
                                     !.file = save_memory(entries, cleanup.file),
                                     !.added = @ + 1,
                                     !.last = NoCleanupCall]
    /\ UNCHANGED <<ollama, recall>>
    /\ UNCHANGED <<kb, enhanced, ingestion>>
    /\ UNCHANGED <<triage_vars, agent_vars, memory_vars, rag_vars>>

\* add_conversation_turn: the turn, stamped with the time, is appended to its
\* session and save_conversations() rewrites conversations.json
CleanupAddTurn ==
    /\ cleanup.added < MaxEntries
    /\ \E s \in {"s1", "s2"} :
          LET convs == with_turn(cleanup.conversations, s,
                                 [id |-> cleanup.added + 1, timestamp |-> cleanup.now])
          IN cleanup' = [cleanup EXCEPT !.conversations = convs,
                                        !.conv_file = save_conversations(convs),
                                        !.added = @ + 1,
                                        !.last = NoCleanupCall]
    /\ UNCHANGED <<ollama, recall>>
    /\ UNCHANGED <<kb, enhanced, ingestion>>
    /\ UNCHANGED <<triage_vars, agent_vars, memory_vars, rag_vars>>

\* cleanup_old_memories(max_age_days)
CleanupOldMemories ==
    /\ \E max_age_days \in 1..MaxClock :
          cleanup' = [cleanup_old_memories(cleanup, cleanup.now, max_age_days)
                         EXCEPT !.last = [op |-> "cleanup",
                                          max_age_days |-> max_age_days]]
    /\ UNCHANGED <<ollama, recall>>
    /\ UNCHANGED <<kb, enhanced, ingestion>>
    /\ UNCHANGED <<triage_vars, agent_vars, memory_vars, rag_vars>>


(***************************************************************************)
(* Specifications                                                          *)
(***************************************************************************)
\* The state after construction: a caller holding a query before triage,
\* UnifiedAgentManager.__init__, an empty agent_memory directory with no
\* TextSimilarityMemory yet, and rag_system = RAGSystem() over an empty
\* ./chroma_db.  Each specification exercises one component and draws that
\* component's inputs from the sets it passes.
Init(queries, clients, failures, availables, seeds) ==
    /\ query \in queries
    /\ triage_result = NoTriage
    /\ client \in clients
    /\ \E failed \in failures : agents = init_agents(failed)
    /\ task_queue = <<>>
    /\ active_tasks = <<>>
    /\ completed_tasks = <<>>
    /\ call = NoCall
    /\ file = NoFile
    /\ conv_file = NoConvFile
    /\ mem = [p \in Procs |-> NoInstance]
    /\ returned_ids = {}
    /\ turns_added = {}
    /\ next_id = 1
    /\ history = NoHistory
    /\ \E available \in availables : rag = NewRagSystem(available)
    /\ store = {}
    /\ hash_seed \in seeds
    /\ presented = {}
    /\ rag_call = NoRagCall
    /\ kb = NoKb
    /\ enhanced = NoEnhanced
    /\ ingestion = NoIngestion
    /\ ollama = NoOllama
    /\ recall = NoRecall
    /\ cleanup = NoCleanup

TriageInit == Init(Queries, {"missing"}, {{}}, {TRUE}, {0})
TriageNext == AnalyzeRequest
SpecTriage == TriageInit /\ [][TriageNext]_vars

AgentInit == Init(NoQueries, Clients, InitFailures, {TRUE}, {0})
AgentsNext == AgentRun \/ ProcessRequest \/ AgentQuery \/ OptimizeAgentSystem
SpecAgents == AgentInit /\ [][AgentsNext]_vars

MemoryInit == Init(NoQueries, {"missing"}, {{}}, {TRUE}, {0})
MemoryNext ==
    \E p \in Procs :
        \/ NewInstance(p)
        \/ Exit(p)
        \/ AddMemoryAppend(p)
        \/ SaveMemoryOpen(p)
        \/ SaveMemoryDump(p)
        \/ \E s \in Sessions : AddConversationTurn(p, s)
        \/ \E s \in Sessions : GetConversationHistory(p, s)
SpecMemory == MemoryInit /\ [][MemoryNext]_vars

RagInit == Init(NoQueries, {"missing"}, {{}}, BOOLEAN, Seeds)
RagNext == Initialize \/ AddDocument \/ Search \/ RestartRag
SpecRag == RagInit /\ [][RagNext]_vars

\* the upload route of one process
UploadInit == Init(NoQueries, {"missing"}, {{}}, BOOLEAN, Seeds)
UploadNext == UploadDocument \/ Initialize
SpecUpload == UploadInit /\ [][UploadNext]_vars

\* the SearchSystem of one process
SearchInit == Init(NoQueries, {"missing"}, {{}}, {TRUE}, {0})
SearchNext ==
    \/ UploadFile
    \/ CreateKnowledgeBase
    \/ UploadListed
    \/ CreateVectorStore
    \/ WaitForCompletion
    \/ Poll
    \/ Process
    \/ NextCall
SpecSearch == SearchInit /\ [][SearchNext]_vars

\* the thread inside wait_for_completion keeps running its loop
LiveSearchInit == Init(NoQueries, {"missing"}, {{}}, {TRUE}, {0})
SpecSearchLive == LiveSearchInit /\ [][SearchNext]_vars /\ WF_vars(Poll)

\* the RAG-enhanced agents over the agents of one UnifiedAgentManager
EnhancedInit == Init(NoQueries, Clients, InitFailures, {TRUE}, {0})
EnhancedNext == EnhancedRun \/ AnalyzeCode \/ EnhancedQuery
SpecEnhanced == EnhancedInit /\ [][EnhancedNext]_vars

\* the ReportIngestion of a process over the reports directory
IngestionInit == Init(NoQueries, {"missing"}, {{}}, {TRUE}, {0})
IngestionNext == WriteReport \/ AgeReport \/ RestartIngestion \/ ManualBulkIngestion
SpecIngestion == IngestionInit /\ [][IngestionNext]_vars

ManagerInit == Init(NoQueries, Clients, InitFailures, {TRUE}, {0})
ManagerNext == ProcessRequest \/ ProcessTask
SpecManager == ManagerInit /\ [][ManagerNext]_vars

(***************************************************************************)
(* Properties                                                              *)
(***************************************************************************)
\* the rules whose keyword occurs in the lower-cased query
MatchingRules(q) ==
    {i \in 1..Len(routing_rules) : IsSubstring(routing_rules[i].keyword, Lower(q))}

\* C1: analyze_request returns as agent_type the first-listed agent of the first
\* rule, in the table's declared order, whose keyword is a substring of the
\* lower-cased query, and "executor" when no keyword occurs.
C1_FirstMatchRouting ==
    triage_result # NoTriage =>
        LET m == MatchingRules(query)
        IN triage_result.agent_type =
              IF m = {} THEN "executor"
              ELSE routing_rules[CHOOSE i \in m : \A j \in m : i <= j].agents[1]

\* a mixed-case query in which two rules match has been routed
C1_Witness ==
    /\ triage_result # NoTriage
    /\ query # Lower(query)
    /\ Cardinality(MatchingRules(query)) >= 2

RunKinds == {"content", "content_fallback", "error_string", "None"}

\* C2 as stated: run() returns a string, and an error string whenever the client
\* is missing or the chat-completion call raises.
C2_AlwaysErrorString ==
    call.op = "run" =>
        /\ IsString(call.ret)
        /\ (client = "missing" \/ call.outs[1] = "raise")
              => call.ret.kind = "error_string"

\* C2 amended: run() never raises.  With the client missing it returns an error
\* string without calling the API.  When the call raises it returns an error
\* string, except that ExecutorWithFallback.run then calls the fallback model and
\* returns that completion's content, and an error string only when the second
\* call fails too.  When the call succeeds run() returns the completion's
\* content, which is None when the completion carries none.
C2_RunNeverRaises ==
    call.op = "run" =>
        LET o == call.outs
            executor == call.runs[1].class = "ExecutorWithFallback"
        IN /\ call.ret.kind \in RunKinds
           /\ client = "missing" => call.ret.kind = "error_string"
           /\ client = "present" =>
                /\ o[1] = "ok" => call.ret.kind = "content"
                /\ o[1] = "no_content" => call.ret.kind = "None"
                /\ (o[1] = "raise" /\ ~executor) => call.ret.kind = "error_string"
                /\ (o[1] = "raise" /\ executor /\ o[2] = "ok")
                      => call.ret.kind = "content_fallback"
                /\ (o[1] = "raise" /\ executor /\ o[2] # "ok")
                      => call.ret.kind = "error_string"

\* ExecutorWithFallback.run has returned after both of its calls failed
C2_Witness ==
    /\ call.op = "run"
    /\ client = "present"
    /\ call.runs[1].class = "ExecutorWithFallback"
    /\ call.outs[1] = "raise" /\ call.outs[2] # "ok"
    /\ call.ret.kind = "error_string"

SixFields == {"task_id", "agent_name", "result", "success", "execution_time", "metadata"}

\* C3 as stated: whenever handling a request raises, the caller receives
\* success = False and error = the exception's message.
C3_UniformEnvelope ==
    call.raised # "None" =>
        LET got == IF call.op = "agent_query" THEN call.body ELSE call.ret
        IN /\ {"success", "error"} \subseteq DOMAIN got
           /\ got.success = FALSE
           /\ got.error = call.raised

\* C3 amended: an exception raised while handling a request is caught, and
\* reported in one of three shapes.  process_request returns an AgentResponse
\* with success = False and error = the message.  A route under
\* agent_error_handler that raises answers 500 with error = "Agent processing
\* failed" and message = the message.  /api/agents/query answers a failure inside
\* process_request with 200, status "success" and the six response fields with an
\* empty result and no error field.
C3_ErrorEnvelopes ==
    call.raised # "None" =>
        /\ call.op \in {"process_request", "agent_query", "optimize"}
        /\ call.op = "process_request" =>
              /\ call.ret.success = FALSE
              /\ call.ret.error = call.raised
        /\ call.op \in {"agent_query", "optimize"} =>
              \/ /\ call.status = 500
                 /\ call.body = [error |-> "Agent processing failed",
                                 message |-> call.raised,
                                 agent_system |-> "unified_multi_agent"]
              \/ /\ call.status = 200
                 /\ call.body.status = "success"
                 /\ DOMAIN call.body.response = SixFields
                 /\ call.body.response.result = EmptyString

\* a route has raised and agent_error_handler has answered
C3_Witness ==
    /\ call.op = "agent_query"
    /\ call.raised # "None"
    /\ call.status = 500

\* C4: every POST /api/agents/query whose JSON body contains a query is answered
\* with {status, response} where response has exactly the six fields.
C4_QueryResponseShape ==
    (call.op = "agent_query" /\ call.arg.has_query) =>
        /\ DOMAIN call.body = {"status", "response"}
        /\ DOMAIN call.body.response = SixFields

\* C5 as stated: no run() makes more than one chat-completion attempt.
C5_SingleAttempt ==
    \A i \in 1..Len(call.runs) : call.runs[i].calls <= 1

\* C5 amended: handling one request runs at most one agent, and a run() makes at
\* most one chat-completion attempt, except ExecutorWithFallback.run, which
\* makes a second attempt (on its fallback model) when the first one raises and
\* none after that.
C5_AttemptsBounded ==
    /\ Len(call.runs) <= 1
    /\ \A i \in 1..Len(call.runs) :
          LET r == call.runs[i]
          IN /\ r.calls <= (IF r.class = "ExecutorWithFallback" THEN 2 ELSE 1)
             /\ r.calls = 2 => call.outs[1] = "raise"

\* process_request ran the executor, whose first attempt raised
C5_Witness ==
    /\ call.op = "process_request"
    /\ Len(call.runs) = 1
    /\ call.runs[1].calls = 2

\* the id of the task the last call worked on
CallTaskId == IF call.op = "process_task" THEN call.arg.id ELSE call.ret.task_id

InQueue(id) == \E i \in 1..Len(task_queue) : task_queue[i].id = id

\* C6 as stated: after process_request or process_task returns, the manager
\* holds nothing keyed by the task's id.
C6_NoRecordKept ==
    call.op \in {"process_request", "process_task"} =>
        /\ ~InQueue(CallTaskId)
        /\ CallTaskId \notin DOMAIN active_tasks
        /\ CallTaskId \notin DOMAIN completed_tasks

\* C6 amended: process_request leaves task_queue, active_tasks and
\* completed_tasks as they were.  After process_task returns the task is in
\* neither task_queue nor active_tasks, and completed_tasks maps the task's id
\* to the response returned.
C6_RecordOnlyInCompleted ==
    [][ /\ call'.op = "process_request" =>
              UNCHANGED <<task_queue, active_tasks, completed_tasks>>
        /\ call'.op = "process_task" =>
              /\ task_queue' = <<>>
              /\ call'.arg.id \notin DOMAIN active_tasks'
              /\ call'.arg.id \in DOMAIN completed_tasks'
              /\ completed_tasks'[call'.arg.id] = call'.ret ]_vars

\* process_task has returned and its response is on record
C6_Witness ==
    /\ call.op = "process_task"
    /\ call.arg.id \in DOMAIN completed_tasks
    /\ completed_tasks[call.arg.id].success

\* the entry ids in the pickle file
FileIds == {file.entries[i].id : i \in 1..Len(file.entries)}

\* C7: writers to one memory directory are not serialised: while one writer is
\* between its append and the end of its save, nothing keeps another live writer
\* from appending and from opening the file for its own save.
C7_WritersNotSerialised ==
    \A p \in Procs, o \in Procs :
        (p # o /\ mem[p].pc \in {"appended", "saving"} /\ mem[o].alive) =>
            /\ (mem[o].pc = "idle" /\ next_id <= MaxStamps) => ENABLED AddMemoryAppend(o)
            /\ mem[o].pc = "appended" => ENABLED SaveMemoryOpen(o)
            /\ mem[o].pc = "saving" => ENABLED SaveMemoryDump(o)

\* every writer is done and the file lacks an entry whose id add_memory returned
C7_Witness ==
    /\ \A p \in Procs : mem[p].pc = "idle"
    /\ file.exists /\ file.state = "ok"
    /\ \E id \in returned_ids : id \notin FileIds

\* C8: every turn added with add_conversation_turn is returned by
\* get_conversation_history of an instance created later on the same directory.
C8_ConversationsPersist ==
    history.op = "get" =>
        \A r \in turns_added :
            (r.session = history.session /\ r.turn.timestamp < mem[history.proc].created)
                => \E i \in 1..Len(history.turns) : history.turns[i] = r.turn

\* C9: every call of RAGSystem.search runs collection.query.
C9_SearchAlwaysQueries ==
    rag_call.op = "search" => rag_call.queried

\* C10: the document id depends on source and content alone, so the same
\* (source, content) is presented to collection.add under one id in every
\* process, and add_document returns True only after collection.add was called
\* with that id.
C10_StableDocId ==
    /\ \A a \in presented, b \in presented :
          (a.source = b.source /\ a.content = b.content) => a.id = b.id
    /\ (rag_call.op = "add_document" /\ rag_call.ok) =>
          /\ rag_call.added
          /\ [source |-> rag_call.arg.source, content |-> rag_call.arg.content,
              id |-> rag_call.doc_id] \in presented

\* an upload that carries a file with a non-empty name
NamedUpload ==
    rag_call.op = "upload" /\ rag_call.arg.has_file /\ rag_call.arg.filename # ""

\* C11: every POST /api/rag/upload that carries a file with a non-empty name is
\* answered with the fields success and document_count, document_count being the
\* number of documents in the knowledge base after the upload.
C11_UploadAlwaysCounts ==
    NamedUpload =>
        /\ {"success", "document_count"} \subseteq DOMAIN rag_call.body
        /\ rag_call.body.document_count = Cardinality(store)

\* C11 (amended): a POST /api/rag/upload that carries a file with a non-empty
\* name is answered with success = True, a message and document_count when
\* add_document returned True; document_count is then the number of documents in
\* the knowledge base after the upload, or 0 when counting them raised.  When
\* add_document returned False (chromadb missing, no collection, or the add
\* raised) the answer is HTTP 500 with the single field error.  Without a file
\* part, or with an empty file name, the answer is HTTP 400 with the field error.
C11_UploadCountsOnSuccess ==
    rag_call.op = "upload" =>
        IF ~NamedUpload
        THEN rag_call.status = 400 /\ DOMAIN rag_call.body = {"error"}
        ELSE IF rag_call.ok
        THEN /\ rag_call.status = 200
             /\ DOMAIN rag_call.body = {"success", "message", "document_count"}
             /\ rag_call.body.success = TRUE
             /\ rag_call.body.document_count =
                    IF rag_call.counted THEN Cardinality(store) ELSE 0
        ELSE rag_call.status = 500 /\ DOMAIN rag_call.body = {"error"}

\* a second document was uploaded and the answer counts both
C11_Witness ==
    /\ NamedUpload /\ rag_call.status = 200
    /\ rag_call.body.document_count = 2

\* the last upload_file call was for a local file that exists, has a supported
\* extension and is within the size limit, and its files.create call failed
CreateFailedOnValidLocal ==
    /\ kb.path # NoRet
    /\ ~kb.path.url /\ kb.path.exists /\ kb.path.ext_ok /\ kb.path.size_ok
    /\ kb.upload.kind = "raise"

\* C12: FileUploader.upload_file raises FileProcessingError whenever files.create
\* fails for a local file that exists, has a supported extension and is within
\* the size limit.
C12_UploadRaisesFileProcessingError ==
    (kb.op = "upload_file" /\ CreateFailedOnValidLocal) =>
        kb.result = Raised("FileProcessingError")

\* C13: create_knowledge_base raises FileProcessingError as soon as the upload of
\* a listed file fails: no later file is attempted, and no vector store is
\* created in that call.
C13_UploadFailureStops ==
    (kb.op = "create_knowledge_base" /\ kb.upload.kind = "raise") =>
        /\ kb.pc = "done"
        /\ kb.result = Raised("FileProcessingError")
        /\ kb.attempts = Len(kb.file_ids) + 1
        /\ ~kb.store.created

\* the second listed file failed after the first was uploaded
C13_Witness ==
    /\ kb.op = "create_knowledge_base" /\ kb.upload.kind = "raise"
    /\ Len(kb.file_ids) = 1 /\ Len(kb.file_paths) = 2

\* the last poll of the store's files happened before the timeout and listed
\* every file as completed
PollShowedAllCompleted ==
    /\ kb.poll.seen /\ kb.poll.at < kb.timeout
    /\ \A i \in 1..Len(kb.poll.statuses) : kb.poll.statuses[i] = "completed"

\* C14: create_knowledge_base returns the id of the vector store it created if
\* and only if every upload succeeded, the store was created and a poll before
\* the timeout showed every file of the store completed; otherwise it raises.
C14_ReturnsIffAllCompleted ==
    (kb.op = "create_knowledge_base" /\ kb.pc = "done") =>
        /\ kb.result.kind \in {"return", "raise"}
        /\ kb.result.kind = "return" <=>
               /\ Len(kb.file_ids) = Len(kb.file_paths)
               /\ kb.store.created
               /\ PollShowedAllCompleted
        /\ kb.result.kind = "return" => kb.result.value = VectorStoreId

\* two files were uploaded and the second poll found both completed
C14_Witness ==
    /\ kb.op = "create_knowledge_base" /\ kb.pc = "done"
    /\ kb.result = Returned(VectorStoreId)
    /\ Len(kb.file_ids) = 2 /\ kb.poll.at > 0

\* a wait_for_completion call has ended
WaitEnded == kb.pc = "done" /\ kb.wait.kind # "none"

\* C18: every call of wait_for_completion ends in exactly one of three ways:
\* True, RuntimeError, or TimeoutError once the timeout has elapsed; it never
\* returns False and never polls forever.
C18_ThreeEndings ==
    /\ [](WaitEnded =>
            /\ kb.wait \in {Returned(TRUE), Raised("RuntimeError"),
                             Raised("TimeoutError")}
            /\ kb.wait = Raised("TimeoutError") => ~(kb.elapsed < kb.timeout))
    /\ (kb.pc = "waiting" ~> kb.pc = "done")

\* C18 (amended): every call of wait_for_completion ends, and in exactly one of
\* four ways: it returns True after a poll that listed every file as completed;
\* it raises RuntimeError after a poll that listed a failed or cancelled file;
\* it raises TimeoutError once the timeout has elapsed; or the exception raised
\* by the listing call vector_stores.files.list leaves it unchanged.  It never
\* returns False and never polls forever.
C18_FourEndings ==
    /\ [](WaitEnded =>
            /\ kb.wait \in {Returned(TRUE), Raised("RuntimeError"),
                             Raised("TimeoutError"), Raised("APIError")}
            /\ kb.wait = Returned(TRUE) => PollShowedAllCompleted
            /\ kb.wait = Raised("RuntimeError") =>
                   /\ kb.poll.seen
                   /\ \E i \in 1..Len(kb.poll.statuses) :
                          kb.poll.statuses[i] \in {"failed", "cancelled"}
            /\ kb.wait = Raised("TimeoutError") => ~(kb.elapsed < kb.timeout))
    /\ (kb.pc = "waiting" ~> kb.pc = "done")

\* a wait that polled, slept and then ran into its timeout
C18_Witness ==
    /\ WaitEnded /\ kb.wait = Raised("TimeoutError")
    /\ kb.poll.seen /\ kb.timeout > 0

\* C15: wherever RAGEnhancedAgent.run is called, the /api/code routes included,
\* it runs its base agent on the RAG-enhanced prompt and returns that response
\* formatted with citations.
C15_RunUsesEnhancedPrompt ==
    enhanced.ran => (enhanced.prompt = "enhanced_prompt" /\ enhanced.formatted)

\* C16: after manual_bulk_ingestion returns without a top-level error, every file
\* with a supported report extension under the reports directory has been
\* uploaded to the target vector store, by this run or by an earlier one.
C16_AllReportsIngested ==
    (ingestion.last.op = "manual_bulk_ingestion" /\ ~ingestion.last.error) =>
        \A f \in ingestion.files :
            f.ext \in report_extensions => f.name \in ingestion.uploaded

\* C17: POST /api/agents/optimize answers status 'success' with an optimization
\* report whose performance_metrics.total_agents is the number of agents the
\* unified agent system holds.
C17_OptimizeReportsTotal ==
    call.op = "optimize" =>
        /\ call.status = 200
        /\ call.body.status = "success"
        /\ call.body.optimization.performance_metrics.total_agents =
               Cardinality(DOMAIN agents)

\* the completed_tasks entries of the tasks other than the one just processed
\* are kept as they were
OtherEntriesKept ==
    \A id \in DOMAIN completed_tasks :
        (call'.op = "process_task" /\ id # call'.arg.id) =>
            (id \in DOMAIN completed_tasks' /\ completed_tasks'[id] = completed_tasks[id])

\* C19: after any sequence of process_task calls, active_tasks holds no task
\* whose call has returned, and completed_tasks maps the id of each processed
\* task to the response returned for it, on the success path and on the failure
\* paths alike.
C19_CompletedTasksComplete ==
    /\ [](/\ DOMAIN active_tasks = {}
          /\ \A id \in DOMAIN completed_tasks : completed_tasks[id].task_id = id
          /\ call.op = "process_task" =>
                /\ call.arg.id \in DOMAIN completed_tasks
                /\ completed_tasks[call.arg.id] = call.ret
                /\ call.ret.success <=> call.raised = "None")
    /\ [][OtherEntriesKept]_vars

\* two tasks are on record, the last one processed through the except branch
C19_Witness ==
    /\ call.op = "process_task" /\ call.raised = "AttributeError"
    /\ Cardinality(DOMAIN completed_tasks) = 2
    /\ ~completed_tasks[call.arg.id].success

\* C20: every agent-type string analyze_request can return is the value of an
\* AgentType member for which the manager holds an agent, whichever constructors
\* failed at start-up, so process_request takes neither the ValueError fallback
\* to EXECUTOR nor a failing agent lookup.
C20_TriageTypesAreAgentTypes ==
    /\ \A i \in 1..Len(routing_rules) : routing_rules[i].agents[1] \in AgentTypes
    /\ triage_result # NoTriage =>
          /\ triage_result.agent_type \in AgentTypes
          /\ primary_agent_type(triage_result.agent_type) = triage_result.agent_type
          /\ \A failed \in SUBSET AgentTypes :
                 triage_result.agent_type \in DOMAIN init_agents(failed)

\* a query routed by a rule that is not the first and not the default
C20_Witness ==
    /\ triage_result # NoTriage
    /\ triage_result.agent_type = "coaching"

\* C21: POST /api/agents/query with an agent_type other than 'auto' is answered
\* by the agent of exactly the requested type, named in the response; a value
\* that names no agent type is answered with an error and the query is never
\* routed to another agent.
C21_DirectQueryByRequestedAgent ==
    (/\ call.op = "agent_query"
     /\ call.arg.truthy /\ call.arg.has_query
     /\ call.arg.context # "null"
     /\ call.arg.agent_type \notin {"absent", "auto"}) =>
        IF call.arg.agent_type \in AgentTypes
        THEN /\ call.status = 200
             /\ call.by = agents[call.arg.agent_type].name
             /\ call.body.response.agent_name = call.arg.agent_type
        ELSE /\ call.status # 200
             /\ call.runs = <<>>

\* C22: enhanced_query calls rag_system.assisted_search for each query type of
\* the agent's specialization and records the outcome in rag_context, so the
\* confidence score is positive whenever those searches succeed.
C22_EnhancedQuerySearches ==
    enhanced.op = "enhanced_query" =>
        LET query_types == rag_specializations(enhanced.agent_type)
        IN /\ enhanced.ret.assisted_search_calls = Len(query_types)
           /\ \A i \in 1..Len(query_types) :
                 query_types[i] \in DOMAIN enhanced.ret.rag_context
           /\ (\A i \in 1..Len(query_types) : enhanced.searches[i] = "ok") =>
                 enhanced.ret.confidence_score > 0

\* one Ollama-backed executor of one process
OllamaInit == Init(NoQueries, {"missing"}, {{}}, {TRUE}, {0})
OllamaNext == ImportOllama \/ OllamaExecute
SpecOllama == OllamaInit /\ [][OllamaNext]_vars

\* C23: the Ollama-backed ExecutorWithFallback.execute retries on the fallback
\* model when the call of the primary model fails; the response carries
\* used_fallback when the fallback succeeds, and success = False when both
\* calls fail.
C23_OllamaFallback ==
    (/\ ollama.last.op = "execute"
     /\ ollama.available
     /\ ollama.last.task = "dict"
     /\ ollama.last.outs[1] = "raise") =>
        /\ ollama.last.outs[2] = "ok" =>
              /\ ollama.last.response.success
              /\ ollama.last.response.used_fallback
              /\ ollama.last.response.result =
                    [kind |-> "response", model |-> ollama.executor.fallback_model]
        /\ ollama.last.outs[2] = "raise" => ~ollama.last.response.success

\* the search of one TextSimilarityMemory
RecallInit == Init(NoQueries, {"missing"}, {{}}, {TRUE}, {0})
RecallNext == RecallAdd \/ SearchMemory
SpecRecall == RecallInit /\ [][RecallNext]_vars

\* the result is at most top_k entries in non-increasing order of score, and no
\* stored entry that passes the filters and was left out scores higher than a
\* returned one
RankedTopK ==
    LET res == recall.last.result
    IN /\ Len(res) <= recall.last.top_k
       /\ \A i \in 1..Len(res) : \E j \in 1..Len(recall.entries) : recall.entries[j] = res[i]
       /\ \A i, j \in 1..Len(res) : i # j => res[i].id # res[j].id
       /\ \A i \in 1..Len(res) - 1 : res[i].relevance_score >= res[i+1].relevance_score
       /\ \A j \in 1..Len(recall.entries) :
             (/\ passes(recall.last.agent_name, recall.entries[j].agent_name)
              /\ passes(recall.last.entry_type, recall.entries[j].entry_type)
              /\ \A i \in 1..Len(res) : res[i].id # recall.entries[j].id) =>
                 \A i \in 1..Len(res) :
                     recall.entries[j].relevance_score <= res[i].relevance_score

CleanupInit == Init(NoQueries, {"missing"}, {{}}, {TRUE}, {0})
CleanupNext == Tick \/ CleanupAddMemory \/ CleanupAddTurn \/ CleanupOldMemories
SpecCleanup == CleanupInit /\ [][CleanupNext]_vars

\* no turn of the conversations dict d is older than cutoff, and no session of d
\* is empty
NoOldTurns(d, cutoff) ==
    \A s \in DOMAIN d :
        /\ d[s] # <<>>
        /\ \A i \in 1..Len(d[s]) : d[s][i].timestamp >= cutoff

\* C25: after cleanup_old_memories returns, neither the in-memory state nor the
\* files on disk hold a memory entry or a conversation turn older than
\* max_age_days, and sessions left with no turns are gone from both.
C25_CleanupReachesDisk ==
    cleanup.last.op = "cleanup" =>
        LET cutoff == cleanup.now - cleanup.last.max_age_days
        IN /\ \A i \in 1..Len(cleanup.entries) : cleanup.entries[i].timestamp >= cutoff
           /\ \A i \in 1..Len(cleanup.file.entries) :
                 cleanup.file.entries[i].timestamp >= cutoff
           /\ NoOldTurns(cleanup.conversations, cutoff)
           /\ NoOldTurns(cleanup.conv_file.data, cutoff)

====
